---- MODULE Spec2Model ----
(***************************************************************************)
(* The editing core of the DIRA terminal editor (src/main.c): the gap      *)
(* buffer `g`, the editor state `E` (cursor, history, selection,           *)
(* clipboard, dirty flag) and the key handlers that drive them.            *)
(*                                                                         *)
(* C indices are 0-based; a TLA+ sequence is 1-based, so the C cell        *)
(* buf[i] is g.buf[i + 1] here.  Bytes are their integer codes.            *)
(***************************************************************************)
EXTENDS Integers, Sequences, FiniteSets, TLC

(* ------------------------------------------------------------------ *)
(* Bounds of the model                                                 *)
(* ------------------------------------------------------------------ *)

\* main() calls gap_init(&g, 1024); the model scales that capacity down so
\* that the growth path of gap_insert is taken after a few inserts.  Like
\* 1024 and every capacity grown from it, InitCap has a positive half.
InitCap == 2

\* Longest logical content the gap-store specifications build.
MaxGapLen == 3

\* Largest destination capacity handed to gap_get.
MaxOut == 3

\* Longest file editorOpen loads in the editor specifications.
MaxFile == 2

\* Most key presses that record history (edits) in one run of the editor
\* specifications.
MaxEdits == 2

\* Longest run of sequential single-character inserts tried from a state.
MaxRun == 2

\* editorSave() declares char tmp[65536] and hands sizeof(tmp) to gap_get;
\* the model scales that size down so that a content longer than the
\* snapshot buffer is built by a few key presses.
SaveTmpSize == 2

\* Longest content the editor specifications build (a history that no longer
\* matches the content can grow the content at every undo/redo round).
MaxLen == 6

\* A cut or a paste that records history is taken only while fewer than
\* MaxClipEdits edits have been made (one cut or paste removes or inserts
\* many bytes, so they are bounded more tightly than the single-byte edits).
MaxClipEdits == 1

\* Largest row and column tried as a selection endpoint or as a queried
\* coordinate.
MaxSelCoord == 2

\* Longest file SpecLoad opens.
MaxLoad == 4

\* Longest file SpecIndent opens.
MaxIndentFile == 3

\* Longest file SpecPaint opens.
MaxPaintFile == 3

\* Longest file SpecSave opens.
MaxSaveFile == 1

(* ------------------------------------------------------------------ *)
(* Bytes                                                               *)
(* ------------------------------------------------------------------ *)

NUL == 0
LF == 10
SPACE == 32
TAB == 9
TAB_STOP == 4

\* The content of a cell that malloc returned and nothing has written yet
\* (outside the range of char).
Uninit == 256

\* The bytes the gap-store specifications insert: a letter and a line feed.
GapBytes == {97, LF}

VARIABLES g, E, ref, refpos, out, last, torn, loaded, edits,
          filename, in_string, abuf, saved

vars == <<g, E, ref, refpos, out, last, torn, loaded, edits,
          filename, in_string, abuf, saved>>

(* ------------------------------------------------------------------ *)
(* Gap buffer (struct gapbuf)                                          *)
(* ------------------------------------------------------------------ *)

gap_init(initial_cap) ==
    LET cap == IF initial_cap > 0 THEN initial_cap ELSE 1024
    IN  [buf |-> [i \in 1..cap |-> Uninit], cap |-> cap,
         gap_start |-> 0, gap_end |-> cap]

gap_length(gb) == gb.cap - (gb.gap_end - gb.gap_start)

\* memmove(buf + dst, buf + src, n): the n source cells are read before any
\* cell is written, so overlapping ranges copy correctly.
memmove(buf, dst, src, n) ==
    [i \in 1..Len(buf) |->
        IF dst < i /\ i <= dst + n THEN buf[src + (i - dst)] ELSE buf[i]]

\* Mutant of gap_move: the gap boundaries move but the bytes are not copied.
gap_move_without_copy(gb, p) ==
    LET len == gap_length(gb)
        pos == IF p < 0 THEN 0 ELSE IF p > len THEN len ELSE p
    IN  [gb EXCEPT !.gap_start = pos,
                   !.gap_end = gb.gap_end + (pos - gb.gap_start)]

gap_move(gb, p) ==
    LET len == gap_length(gb)
        pos == IF p < 0 THEN 0 ELSE IF p > len THEN len ELSE p
    IN  IF pos < gb.gap_start
        THEN LET move_len == gb.gap_start - pos
                 ge == gb.gap_end - move_len
             IN  [gb EXCEPT !.buf = memmove(gb.buf, ge, pos, move_len),
                            !.gap_end = ge,
                            !.gap_start = pos]
        ELSE IF pos > gb.gap_start
        THEN LET move_len == pos - gb.gap_start
             IN  [gb EXCEPT !.buf = memmove(gb.buf, gb.gap_start, gb.gap_end, move_len),
                            !.gap_start = gb.gap_start + move_len,
                            !.gap_end = gb.gap_end + move_len]
        ELSE gb

\* The first half of gap_insert: the reallocation taken when the gap is empty.
gap_grow(gb) ==
    IF gb.gap_start = gb.gap_end
    THEN LET gap_size == gb.cap \div 2
             newcap == gb.cap + gap_size
             prefix == gb.gap_start
             suffix == gb.cap - gb.gap_end
             nb == [i \in 1..newcap |->
                      IF i <= prefix THEN gb.buf[i]
                      ELSE IF i > newcap - suffix
                           THEN gb.buf[gb.gap_end + (i - (newcap - suffix))]
                           ELSE Uninit]
         IN  [buf |-> nb, cap |-> newcap,
              gap_start |-> gb.gap_start, gap_end |-> newcap - suffix]
    ELSE gb

\* gap_insert as it runs when malloc(newcap) returned NULL and no store
\* through nb trapped: the boundaries are set for the new capacity, the old
\* allocation is freed and g->buf is the null pointer, no cell behind it.
gap_insert_malloc_null(gb) ==
    LET gap_size == gb.cap \div 2
        newcap == gb.cap + gap_size
        suffix == gb.cap - gb.gap_end
    IN  [buf |-> <<>>, cap |-> newcap,
         gap_start |-> gb.gap_start + 1, gap_end |-> newcap - suffix]

\* g->buf[g->gap_start++] = c lands outside the allocation when, after the
\* growth step, gap_start is still the capacity.
gap_insert_overflows(gb) == gap_grow(gb).gap_start >= gap_grow(gb).cap

gap_insert(gb, c) ==
    LET gr == gap_grow(gb)
    IN  [gr EXCEPT !.buf = IF gr.gap_start < gr.cap
                           THEN [gr.buf EXCEPT ![gr.gap_start + 1] = c]
                           ELSE gr.buf,
                   !.gap_start = gr.gap_start + 1]

\* Mutant of gap_backspace: the start-of-buffer check is missing.
gap_backspace_unchecked(gb) ==
    [g |-> [gb EXCEPT !.gap_start = gb.gap_start - 1], ret |-> 1]

gap_backspace(gb) ==
    IF gb.gap_start = 0
    THEN [g |-> gb, ret |-> 0]
    ELSE [g |-> [gb EXCEPT !.gap_start = gb.gap_start - 1], ret |-> 1]

\* Mutant of gap_delete: the end-of-buffer check is missing.
gap_delete_unchecked(gb) ==
    [g |-> [gb EXCEPT !.gap_end = gb.gap_end + 1], ret |-> 1]

gap_delete(gb) ==
    IF gb.gap_end = gb.cap
    THEN [g |-> gb, ret |-> 0]
    ELSE [g |-> [gb EXCEPT !.gap_end = gb.gap_end + 1], ret |-> 1]

\* Mutant of gap_get: no capacity check; it copies what fits and returns
\* the number of bytes copied.
gap_get_truncating(gb, dst, outcap) ==
    LET len == gap_length(gb)
        n == IF outcap < len THEN outcap ELSE len
    IN  [out |-> [i \in 1..Len(dst) |->
                     IF i <= n
                     THEN IF i <= gb.gap_start THEN gb.buf[i]
                          ELSE gb.buf[gb.gap_end + (i - gb.gap_start)]
                     ELSE dst[i]],
         ret |-> n]

\* gap_get(g, out, outcap): dst is the caller's buffer of outcap cells.
gap_get(gb, dst, outcap) ==
    LET len == gap_length(gb)
        prefix == gb.gap_start
        suffix == gb.cap - gb.gap_end
    IN  IF outcap < len
        THEN [out |-> dst, ret |-> -1]
        ELSE [out |-> [i \in 1..Len(dst) |->
                          IF i <= prefix THEN gb.buf[i]
                          ELSE IF i <= prefix + suffix
                               THEN gb.buf[gb.gap_end + (i - prefix)]
                               ELSE dst[i]],
              ret |-> len]

gap_char_at(gb, pos) ==
    IF pos < 0 \/ pos >= gap_length(gb) THEN NUL
    ELSE IF pos < gb.gap_start THEN gb.buf[pos + 1]
    ELSE gb.buf[gb.gap_end + (pos - gb.gap_start) + 1]

\* The logical byte sequence, read through gap_char_at as the callers do.
Content(gb) == [i \in 1..gap_length(gb) |-> gap_char_at(gb, i - 1)]

(* ------------------------------------------------------------------ *)
(* Cursor/position conversion                                          *)
(* ------------------------------------------------------------------ *)

\* Mutant of pos_to_rowcol's loop: the column is not reset at a line feed.
RECURSIVE pos_to_rowcol_loop_no_reset(_, _, _, _, _)
pos_to_rowcol_loop_no_reset(gb, pos, i, row, col) ==
    IF i < pos
    THEN IF gap_char_at(gb, i) = LF
         THEN pos_to_rowcol_loop_no_reset(gb, pos, i + 1, row + 1, col + 1)
         ELSE pos_to_rowcol_loop_no_reset(gb, pos, i + 1, row, col + 1)
    ELSE [row |-> row, col |-> col]

RECURSIVE pos_to_rowcol_loop(_, _, _, _, _)
pos_to_rowcol_loop(gb, pos, i, row, col) ==
    IF i < pos
    THEN IF gap_char_at(gb, i) = LF
         THEN pos_to_rowcol_loop(gb, pos, i + 1, row + 1, 0)
         ELSE pos_to_rowcol_loop(gb, pos, i + 1, row, col + 1)
    ELSE [row |-> row, col |-> col]

\* Mutant of pos_to_rowcol: the scan includes the byte at pos (i <= pos).
pos_to_rowcol_inclusive(gb, pos) ==
    pos_to_rowcol_loop(gb, IF pos < gap_length(gb) THEN pos + 1 ELSE pos, 0, 0, 0)

pos_to_rowcol(gb, pos) == pos_to_rowcol_loop(gb, pos, 0, 0, 0)

\* First loop of rowcol_to_pos: advance to the start of the target row.
RECURSIVE rowcol_to_pos_rows(_, _, _, _, _)
rowcol_to_pos_rows(gb, row, pos, cur_row, cur_col) ==
    IF pos < gap_length(gb) /\ cur_row < row
    THEN IF gap_char_at(gb, pos) = LF
         THEN rowcol_to_pos_rows(gb, row, pos + 1, cur_row + 1, 0)
         ELSE rowcol_to_pos_rows(gb, row, pos + 1, cur_row, cur_col + 1)
    ELSE [pos |-> pos, cur_col |-> cur_col]

\* Mutant of rowcol_to_pos's second loop: it does not stop at a line feed.
RECURSIVE rowcol_to_pos_cols_through_newline(_, _, _, _)
rowcol_to_pos_cols_through_newline(gb, col, pos, cur_col) ==
    IF pos < gap_length(gb) /\ cur_col < col
    THEN rowcol_to_pos_cols_through_newline(gb, col, pos + 1, cur_col + 1)
    ELSE pos

\* Second loop of rowcol_to_pos: advance within the row, stopping at LF.
RECURSIVE rowcol_to_pos_cols(_, _, _, _)
rowcol_to_pos_cols(gb, col, pos, cur_col) ==
    IF pos < gap_length(gb) /\ cur_col < col /\ gap_char_at(gb, pos) # LF
    THEN rowcol_to_pos_cols(gb, col, pos + 1, cur_col + 1)
    ELSE pos

rowcol_to_pos(gb, row, col) ==
    LET r == rowcol_to_pos_rows(gb, row, 0, 0, 0)
    IN  rowcol_to_pos_cols(gb, col, r.pos, r.cur_col)

RECURSIVE line_scan(_, _, _)
line_scan(gb, pos, line_len) ==
    IF pos < gap_length(gb) /\ gap_char_at(gb, pos) # LF
    THEN line_scan(gb, pos + 1, line_len + 1)
    ELSE line_len

get_line_length(gb, row) == line_scan(gb, rowcol_to_pos(gb, row, 0), 0)

RECURSIVE indent_scan(_, _, _)
indent_scan(gb, pos, indent) ==
    IF pos < gap_length(gb)
    THEN IF gap_char_at(gb, pos) = SPACE THEN indent_scan(gb, pos + 1, indent + 1)
         ELSE IF gap_char_at(gb, pos) = TAB THEN indent_scan(gb, pos + 1, indent + TAB_STOP)
         ELSE indent
    ELSE indent

get_line_indent(gb, row) == indent_scan(gb, rowcol_to_pos(gb, row, 0), 0)

count_rows(gb) ==
    1 + Cardinality({i \in 0..(gap_length(gb) - 1) : gap_char_at(gb, i) = LF})

(* ------------------------------------------------------------------ *)
(* Undo/redo (struct edit, struct editHistory)                         *)
(* ------------------------------------------------------------------ *)

\* enum editType
EDIT_INSERT == 0
EDIT_DELETE == 1
EDIT_INSERT_NEWLINE == 2
EDIT_DELETE_NEWLINE == 3

\* The two linked lists are sequences, the head of a list first.
history_init == [undoStack |-> <<>>, redoStack |-> <<>>, grouping |-> 0]

\* Mutant of history_push: the redo stack is kept.
history_push_keeping_redo(h, type, pos, ch) ==
    [h EXCEPT !.undoStack = <<[type |-> type, pos |-> pos, ch |-> ch]>> \o h.undoStack]

history_push(h, type, pos, ch) ==
    [h EXCEPT !.undoStack = <<[type |-> type, pos |-> pos, ch |-> ch]>> \o h.undoStack,
              !.redoStack = <<>>]

\* Mutant of history_undo: the inverse is applied where the gap happens to
\* be, without gap_move to the record's position.
history_undo_in_place(st) ==
    LET h == st.E.history IN
    IF h.undoStack = <<>>
    THEN [st |-> st, ret |-> 0]
    ELSE LET e == Head(h.undoStack)
             h1 == [h EXCEPT !.undoStack = Tail(h.undoStack),
                             !.redoStack = <<e>> \o h.redoStack]
             g1 == CASE e.type = EDIT_INSERT -> gap_delete(st.g).g
                     [] e.type = EDIT_DELETE -> gap_insert(st.g, e.ch)
                     [] e.type = EDIT_INSERT_NEWLINE -> gap_delete(st.g).g
                     [] e.type = EDIT_DELETE_NEWLINE -> gap_insert(st.g, LF)
         IN  [st |-> [g |-> g1, E |-> [st.E EXCEPT !.history = h1]], ret |-> 1]

\* history_undo works on the global g; the state st is [g, E].
history_undo(st) ==
    LET h == st.E.history IN
    IF h.undoStack = <<>>
    THEN [st |-> st, ret |-> 0]
    ELSE LET e == Head(h.undoStack)
             h1 == [h EXCEPT !.undoStack = Tail(h.undoStack),
                             !.redoStack = <<e>> \o h.redoStack]
             gm == gap_move(st.g, e.pos)
             g1 == CASE e.type = EDIT_INSERT -> gap_delete(gm).g
                     [] e.type = EDIT_DELETE -> gap_insert(gm, e.ch)
                     [] e.type = EDIT_INSERT_NEWLINE -> gap_delete(gm).g
                     [] e.type = EDIT_DELETE_NEWLINE -> gap_insert(gm, LF)
         IN  [st |-> [g |-> g1, E |-> [st.E EXCEPT !.history = h1]], ret |-> 1]

\* Mutant of history_redo: the record is reapplied where the gap happens to
\* be, without gap_move to the record's position.
history_redo_in_place(st) ==
    LET h == st.E.history IN
    IF h.redoStack = <<>>
    THEN [st |-> st, ret |-> 0]
    ELSE LET e == Head(h.redoStack)
             h1 == [h EXCEPT !.redoStack = Tail(h.redoStack),
                             !.undoStack = <<e>> \o h.undoStack]
             g1 == CASE e.type = EDIT_INSERT -> gap_insert(st.g, e.ch)
                     [] e.type = EDIT_DELETE -> gap_delete(st.g).g
                     [] e.type = EDIT_INSERT_NEWLINE -> gap_insert(st.g, LF)
                     [] e.type = EDIT_DELETE_NEWLINE -> gap_delete(st.g).g
         IN  [st |-> [g |-> g1, E |-> [st.E EXCEPT !.history = h1]], ret |-> 1]

history_redo(st) ==
    LET h == st.E.history IN
    IF h.redoStack = <<>>
    THEN [st |-> st, ret |-> 0]
    ELSE LET e == Head(h.redoStack)
             h1 == [h EXCEPT !.redoStack = Tail(h.redoStack),
                             !.undoStack = <<e>> \o h.undoStack]
             gm == gap_move(st.g, e.pos)
             g1 == CASE e.type = EDIT_INSERT -> gap_insert(gm, e.ch)
                     [] e.type = EDIT_DELETE -> gap_delete(gm).g
                     [] e.type = EDIT_INSERT_NEWLINE -> gap_insert(gm, LF)
                     [] e.type = EDIT_DELETE_NEWLINE -> gap_delete(gm).g
         IN  [st |-> [g |-> g1, E |-> [st.E EXCEPT !.history = h1]], ret |-> 1]

(* ------------------------------------------------------------------ *)
(* Selection and clipboard                                             *)
(* ------------------------------------------------------------------ *)

selection_start(sel, row, col) ==
    [active |-> 1, start_row |-> row, start_col |-> col,
     end_row |-> row, end_col |-> col]

\* Mutant of selection_update: the anchor follows the moving end.
selection_update_moving_anchor(sel, row, col) ==
    [sel EXCEPT !.start_row = row, !.start_col = col,
                !.end_row = row, !.end_col = col]

selection_update(sel, row, col) ==
    [sel EXCEPT !.end_row = row, !.end_col = col]

selection_clear(sel) == [sel EXCEPT !.active = 0]

\* Mutant of the "Normalize" block: the endpoints are never swapped.
sel_normalize_no_swap(sel) ==
    [sr |-> sel.start_row, sc |-> sel.start_col,
     er |-> sel.end_row, ec |-> sel.end_col]

\* The "Normalize" block shared by selection_contains, clipboard_copy and
\* selection_delete: the endpoints in (row, col) order.
sel_normalize(sel) ==
    IF sel.start_row > sel.end_row
       \/ (sel.start_row = sel.end_row /\ sel.start_col > sel.end_col)
    THEN [sr |-> sel.end_row, sc |-> sel.end_col,
          er |-> sel.start_row, ec |-> sel.start_col]
    ELSE [sr |-> sel.start_row, sc |-> sel.start_col,
          er |-> sel.end_row, ec |-> sel.end_col]

\* Mutant of selection_contains: the end column is included (col <= ec).
selection_contains_closed(sel, row, col) ==
    IF sel.active = 0 THEN FALSE
    ELSE LET n == sel_normalize(sel) IN
         IF row < n.sr \/ row > n.er THEN FALSE
         ELSE IF row = n.sr /\ row = n.er THEN col >= n.sc /\ col <= n.ec
         ELSE IF row = n.sr THEN col >= n.sc
         ELSE IF row = n.er THEN col <= n.ec
         ELSE TRUE

selection_contains(sel, row, col) ==
    IF sel.active = 0 THEN FALSE
    ELSE LET n == sel_normalize(sel) IN
         IF row < n.sr \/ row > n.er THEN FALSE
         ELSE IF row = n.sr /\ row = n.er THEN col >= n.sc /\ col < n.ec
         ELSE IF row = n.sr THEN col >= n.sc
         ELSE IF row = n.er THEN col < n.ec
         ELSE TRUE

\* Mutant of clipboard_copy: the old clipboard is kept and the copied bytes
\* are appended to it.
clipboard_copy_appending(st) ==
    IF st.E.sel.active = 0 THEN st
    ELSE LET n == sel_normalize(st.E.sel)
             start_pos == rowcol_to_pos(st.g, n.sr, n.sc)
             end_pos == rowcol_to_pos(st.g, n.er, n.ec)
             copy_len == end_pos - start_pos
         IN  IF copy_len <= 0 THEN st
             ELSE [st EXCEPT !.E.clip =
                      [data |-> st.E.clip.data \o
                                [i \in 1..copy_len |->
                                    gap_char_at(st.g, start_pos + (i - 1))],
                       len |-> st.E.clip.len + copy_len]]

clipboard_copy(st) ==
    IF st.E.sel.active = 0 THEN st
    ELSE LET n == sel_normalize(st.E.sel)
             start_pos == rowcol_to_pos(st.g, n.sr, n.sc)
             end_pos == rowcol_to_pos(st.g, n.er, n.ec)
             copy_len == end_pos - start_pos
         IN  IF copy_len <= 0 THEN st
             ELSE [st EXCEPT !.E.clip =
                      [data |-> [i \in 1..copy_len |->
                                    gap_char_at(st.g, start_pos + (i - 1))],
                       len |-> copy_len]]

\* Mutant of clipboard_paste's loop: every record carries the position of
\* the first pasted byte.
RECURSIVE clipboard_paste_loop_same_pos(_, _, _)
clipboard_paste_loop_same_pos(st, pos, i) ==
    IF i < st.E.clip.len
    THEN clipboard_paste_loop_same_pos(
            [st EXCEPT !.g = gap_insert(st.g, st.E.clip.data[i + 1]),
                       !.E.history = history_push(st.E.history, EDIT_INSERT,
                                                  pos, st.E.clip.data[i + 1])],
            pos, i + 1)
    ELSE st

RECURSIVE clipboard_paste_loop(_, _, _)
clipboard_paste_loop(st, pos, i) ==
    IF i < st.E.clip.len
    THEN clipboard_paste_loop(
            [st EXCEPT !.g = gap_insert(st.g, st.E.clip.data[i + 1]),
                       !.E.history = history_push(st.E.history, EDIT_INSERT,
                                                  pos + i, st.E.clip.data[i + 1])],
            pos, i + 1)
    ELSE st

\* Mutant of clipboard_paste: the empty-clipboard check is missing.
clipboard_paste_unchecked(st) ==
    LET pos == rowcol_to_pos(st.g, st.E.cy, st.E.cx)
        s1 == clipboard_paste_loop([st EXCEPT !.g = gap_move(st.g, pos)], pos, 0)
    IN  [s1 EXCEPT !.E.dirty = 1]

clipboard_paste(st) ==
    IF st.E.clip.len = 0 THEN st
    ELSE LET pos == rowcol_to_pos(st.g, st.E.cy, st.E.cx)
             s1 == clipboard_paste_loop([st EXCEPT !.g = gap_move(st.g, pos)], pos, 0)
         IN  [s1 EXCEPT !.E.dirty = 1]

\* Mutant of selection_delete's loop: the byte is read after gap_delete, so
\* each record carries the byte that follows the removed one.
RECURSIVE selection_delete_loop_reads_after(_, _, _, _)
selection_delete_loop_reads_after(st, start_pos, end_pos, i) ==
    IF i < end_pos
    THEN selection_delete_loop_reads_after(
            [st EXCEPT !.g = gap_delete(st.g).g,
                       !.E.history = history_push(st.E.history, EDIT_DELETE, start_pos,
                                                  gap_char_at(gap_delete(st.g).g, start_pos))],
            start_pos, end_pos, i + 1)
    ELSE st

RECURSIVE selection_delete_loop(_, _, _, _)
selection_delete_loop(st, start_pos, end_pos, i) ==
    IF i < end_pos
    THEN selection_delete_loop(
            [st EXCEPT !.g = gap_delete(st.g).g,
                       !.E.history = history_push(st.E.history, EDIT_DELETE, start_pos,
                                                  gap_char_at(st.g, start_pos))],
            start_pos, end_pos, i + 1)
    ELSE st

selection_delete(st) ==
    IF st.E.sel.active = 0 THEN st
    ELSE LET n == sel_normalize(st.E.sel)
             start_pos == rowcol_to_pos(st.g, n.sr, n.sc)
             end_pos == rowcol_to_pos(st.g, n.er, n.ec)
             s1 == selection_delete_loop([st EXCEPT !.g = gap_move(st.g, start_pos)],
                                         start_pos, end_pos, start_pos)
         IN  [s1 EXCEPT !.E.cy = n.sr, !.E.cx = n.sc,
                        !.E.sel = selection_clear(s1.E.sel), !.E.dirty = 1]

(* ------------------------------------------------------------------ *)
(* Keys (enum editorKey and the control codes of editorProcessKeypress)*)
(* ------------------------------------------------------------------ *)

ARROW_LEFT == 1000
ARROW_RIGHT == 1001
ARROW_UP == 1002
ARROW_DOWN == 1003
DEL_KEY == 1004
HOME_KEY == 1005
END_KEY == 1006
PAGE_UP == 1007
PAGE_DOWN == 1008

\* editorReadKey ORs 0x1000 into an arrow key read with Shift held.
SHIFT == 4096

CTRL_A == 1
CTRL_C == 3
CTRL_H == 8
CTRL_S == 19
CTRL_V == 22
CTRL_X == 24
CTRL_Y == 25
CTRL_Z == 26
ENTER == 13
ESC == 27
BACKSPACE == 127

is_shift_arrow(key) == (key \div SHIFT) % 2

get_base_key(key) == key % SHIFT

\* E.screenrows as main() leaves it (terminal rows minus 2); the handlers
\* page by E.screenrows - 2 rows.
ScreenRows == 3

(* ------------------------------------------------------------------ *)
(* Cursor movement                                                     *)
(* ------------------------------------------------------------------ *)

RECURSIVE page_up_loop(_, _)
page_up_loop(cy, i) ==
    IF i < ScreenRows - 2
    THEN page_up_loop(IF cy > 0 THEN cy - 1 ELSE cy, i + 1)
    ELSE cy

RECURSIVE page_down_loop(_, _, _)
page_down_loop(cy, total_rows, i) ==
    IF i < ScreenRows - 2
    THEN page_down_loop(IF cy < total_rows - 1 THEN cy + 1 ELSE cy, total_rows, i + 1)
    ELSE cy

editorMoveCursor(st, key) ==
    LET total_rows == count_rows(st.g)
        cx == st.E.cx
        cy == st.E.cy
    IN  CASE key = ARROW_LEFT ->
               IF cx > 0 THEN [st EXCEPT !.E.cx = cx - 1]
               ELSE IF cy > 0
                    THEN [st EXCEPT !.E.cy = cy - 1,
                                    !.E.cx = get_line_length(st.g, cy - 1)]
                    ELSE st
          [] key = ARROW_RIGHT ->
               IF cx < get_line_length(st.g, cy) THEN [st EXCEPT !.E.cx = cx + 1]
               ELSE IF cy < total_rows - 1
                    THEN [st EXCEPT !.E.cy = cy + 1, !.E.cx = 0]
                    ELSE st
          [] key = ARROW_UP ->
               IF cy > 0
               THEN LET line_len == get_line_length(st.g, cy - 1)
                    IN  [st EXCEPT !.E.cy = cy - 1,
                                   !.E.cx = IF cx > line_len THEN line_len ELSE cx]
               ELSE st
          [] key = ARROW_DOWN ->
               IF cy < total_rows - 1
               THEN LET line_len == get_line_length(st.g, cy + 1)
                    IN  [st EXCEPT !.E.cy = cy + 1,
                                   !.E.cx = IF cx > line_len THEN line_len ELSE cx]
               ELSE st
          [] key = HOME_KEY -> [st EXCEPT !.E.cx = 0]
          [] key = END_KEY -> [st EXCEPT !.E.cx = get_line_length(st.g, cy)]
          [] key = PAGE_UP -> [st EXCEPT !.E.cy = page_up_loop(st.E.rowoff, 0)]
          [] key = PAGE_DOWN ->
               LET c0 == st.E.rowoff + ScreenRows - 2
                   c1 == IF c0 > total_rows - 1 THEN total_rows - 1 ELSE c0
               IN  [st EXCEPT !.E.cy = page_down_loop(c1, total_rows, 0)]
          [] OTHER -> st

\* The row part of editorScroll; coloff and screencols only steer drawing.
editorScroll(st) ==
    LET r1 == IF st.E.cy < st.E.rowoff THEN st.E.cy ELSE st.E.rowoff
        r2 == IF st.E.cy >= r1 + ScreenRows - 2 THEN st.E.cy - ScreenRows + 3 ELSE r1
    IN  [st EXCEPT !.E.rowoff = r2]

\* editorRefreshScreen as far as it changes state: the welcome screen
\* returns before editorScroll.
editorRefreshScreen(st) ==
    IF st.E.show_welcome = 1 THEN st ELSE editorScroll(st)

(* ------------------------------------------------------------------ *)
(* Syntax highlighting                                                 *)
(* ------------------------------------------------------------------ *)

HL_NORMAL == 0
HL_KEYWORD == 1
HL_STRING == 2
HL_COMMENT == 3
HL_NUMBER == 4

QUOTE == 34
SLASH == 47

\* E.filename: NULL until editorOpen sets it; otherwise the name and what
\* strrchr(filename, '.') points to ("" when the name has no dot).
NULL == [name |-> "", ext |-> "", null |-> TRUE]

isspace(c) == c \in {9, 10, 11, 12, 13, 32}

isdigit(c) == 48 <= c /\ c <= 57

\* strchr(",.()+-/*=~%<>[];", c) finds the terminator when c is NUL.
is_separator(c) ==
    isspace(c) \/ c = NUL \/ c \in {37, 40, 41, 42, 43, 44, 45, 46, 47, 59, 60, 61, 62, 91, 93, 126}

\* "if", "else", "while", "for", "return", "int", "char", "void", "struct",
\* "enum", "static", "const", "break", "continue", "switch", "case",
\* "default", "sizeof", "typedef"
keywords ==
    <<<<105, 102>>,
      <<101, 108, 115, 101>>,
      <<119, 104, 105, 108, 101>>,
      <<102, 111, 114>>,
      <<114, 101, 116, 117, 114, 110>>,
      <<105, 110, 116>>,
      <<99, 104, 97, 114>>,
      <<118, 111, 105, 100>>,
      <<115, 116, 114, 117, 99, 116>>,
      <<101, 110, 117, 109>>,
      <<115, 116, 97, 116, 105, 99>>,
      <<99, 111, 110, 115, 116>>,
      <<98, 114, 101, 97, 107>>,
      <<99, 111, 110, 116, 105, 110, 117, 101>>,
      <<115, 119, 105, 116, 99, 104>>,
      <<99, 97, 115, 101>>,
      <<100, 101, 102, 97, 117, 108, 116>>,
      <<115, 105, 122, 101, 111, 102>>,
      <<116, 121, 112, 101, 100, 101, 102>>>>

\* memcmp(content + pos, kw, klen) == 0, given pos + klen <= len
keyword_at(content, pos, kw) ==
    \A j \in 1..Len(kw) : content[pos + j] = kw[j]

is_c(fname) == ~fname.null /\ fname.ext \in {".c", ".h", ".cpp", ".cc"}

\* get_highlight(content, len, pos, filename); ins is the static in_string
\* on entry, and the result carries the class and in_string on return.
\* content is indexed from 1: content[pos + 1] is the C content[pos].
get_highlight(content, len, pos, fname, ins) ==
    IF pos >= len THEN [hl |-> HL_NORMAL, in_string |-> ins]
    ELSE IF ~is_c(fname) THEN [hl |-> HL_NORMAL, in_string |-> ins]
    ELSE LET c == content[pos + 1]
             toggled == IF c = QUOTE THEN 1 - ins ELSE ins
         IN  IF pos + 1 < len /\ c = SLASH /\ content[pos + 2] = SLASH
             THEN [hl |-> HL_COMMENT, in_string |-> ins]
             ELSE IF isdigit(c) /\ (pos = 0 \/ is_separator(content[pos]))
             THEN [hl |-> HL_NUMBER, in_string |-> ins]
             ELSE IF toggled = 1
             THEN [hl |-> HL_STRING, in_string |-> toggled]
             ELSE IF \E k \in 1..Len(keywords) :
                        LET klen == Len(keywords[k])
                        IN  /\ pos + klen <= len
                            /\ keyword_at(content, pos, keywords[k])
                            /\ (pos + klen >= len
                                  \/ is_separator(content[pos + klen + 1]))
                            /\ (pos = 0 \/ is_separator(content[pos]))
             THEN [hl |-> HL_KEYWORD, in_string |-> toggled]
             ELSE [hl |-> HL_NORMAL, in_string |-> toggled]

\* The drawing loop of editorRefreshScreen, after editorScroll: the bytes of
\* the visible rows that are not selected go through get_highlight from left
\* to right.  ins is the static in_string before the pass; the result is the
\* class given to each such byte (what abuf is coloured with) and in_string
\* after the pass.  The welcome screen returns before the loop.  The screen
\* is taken wide enough for every column (E.coloff stays 0).
editorRefreshScreen_draw(st, fname, ins) ==
    IF st.E.show_welcome = 1 THEN [abuf |-> <<>>, in_string |-> ins]
    ELSE
    LET tmp == Content(st.g)
        len == Len(tmp)
        loop[i \in 0..len] ==
            IF i = 0
            THEN [row |-> 0, col |-> 0, screen_row |-> 0, abuf |-> <<>>,
                  in_string |-> ins]
            ELSE LET s == loop[i - 1]
                     c == tmp[i]
                 IN  IF s.screen_row >= ScreenRows - 2 THEN s
                     ELSE IF s.row < st.E.rowoff
                     THEN IF c = LF THEN [s EXCEPT !.row = s.row + 1] ELSE s
                     ELSE IF c = LF
                     THEN [s EXCEPT !.row = s.row + 1, !.col = 0,
                                    !.screen_row = s.screen_row + 1]
                     ELSE IF selection_contains(st.E.sel, s.row, s.col)
                     THEN [s EXCEPT !.col = s.col + 1]
                     ELSE LET h == get_highlight(tmp, len, i - 1, fname, s.in_string)
                          IN  [s EXCEPT !.col = s.col + 1,
                                        !.in_string = h.in_string,
                                        !.abuf = Append(s.abuf,
                                                        [pos |-> i - 1, hl |-> h.hl])]
    IN  [abuf |-> loop[len].abuf, in_string |-> loop[len].in_string]

(* ------------------------------------------------------------------ *)
(* Editor operations                                                   *)
(* ------------------------------------------------------------------ *)

\* Mutant of editorInsertChar: the record holds the cursor offset after the
\* insert instead of the offset of the inserted byte.
editorInsertChar_records_after(st, c) ==
    LET pos == rowcol_to_pos(st.g, st.E.cy, st.E.cx)
    IN  [st EXCEPT !.g = gap_insert(gap_move(st.g, pos), c),
                   !.E.history = history_push(st.E.history, EDIT_INSERT, pos + 1, c),
                   !.E.cx = st.E.cx + 1,
                   !.E.dirty = 1]

editorInsertChar(st, c) ==
    LET pos == rowcol_to_pos(st.g, st.E.cy, st.E.cx)
    IN  [st EXCEPT !.g = gap_insert(gap_move(st.g, pos), c),
                   !.E.history = history_push(st.E.history, EDIT_INSERT, pos, c),
                   !.E.cx = st.E.cx + 1,
                   !.E.dirty = 1]

\* Mutant of editorInsertNewline's loop: every space is recorded at the
\* position of the first one.
RECURSIVE auto_indent_loop_same_pos(_, _, _, _)
auto_indent_loop_same_pos(st, pos, prev_indent, i) ==
    IF i < prev_indent
    THEN auto_indent_loop_same_pos(
            [st EXCEPT !.g = gap_insert(st.g, SPACE),
                       !.E.history = history_push(st.E.history, EDIT_INSERT,
                                                  pos + 1, SPACE),
                       !.E.cx = st.E.cx + 1],
            pos, prev_indent, i + 1)
    ELSE st

RECURSIVE auto_indent_loop(_, _, _, _)
auto_indent_loop(st, pos, prev_indent, i) ==
    IF i < prev_indent
    THEN auto_indent_loop(
            [st EXCEPT !.g = gap_insert(st.g, SPACE),
                       !.E.history = history_push(st.E.history, EDIT_INSERT,
                                                  pos + 1 + i, SPACE),
                       !.E.cx = st.E.cx + 1],
            pos, prev_indent, i + 1)
    ELSE st

editorInsertNewline(st) ==
    LET pos == rowcol_to_pos(st.g, st.E.cy, st.E.cx)
        s1 == [st EXCEPT !.g = gap_insert(gap_move(st.g, pos), LF),
                         !.E.history = history_push(st.E.history,
                                                    EDIT_INSERT_NEWLINE, pos, LF)]
        prev_indent == get_line_indent(s1.g, s1.E.cy)
        s2 == [s1 EXCEPT !.E.cy = s1.E.cy + 1, !.E.cx = 0]
        s3 == auto_indent_loop(s2, pos, prev_indent, 0)
    IN  [s3 EXCEPT !.E.dirty = 1]

editorDelChar(st) ==
    IF st.E.cx > 0
    THEN LET pos == rowcol_to_pos(st.g, st.E.cy, st.E.cx)
             gm == gap_move(st.g, pos)
             ch == gap_char_at(gm, pos - 1)
             b == gap_backspace(gm)
         IN  IF b.ret = 1
             THEN [st EXCEPT !.g = b.g,
                             !.E.history = history_push(st.E.history, EDIT_DELETE,
                                                        pos - 1, ch),
                             !.E.cx = st.E.cx - 1,
                             !.E.dirty = 1]
             ELSE [st EXCEPT !.g = b.g]
    ELSE IF st.E.cy > 0
    THEN LET prev_line_len == get_line_length(st.g, st.E.cy - 1)
             pos == rowcol_to_pos(st.g, st.E.cy, 0)
             gm == gap_move(st.g, pos)
             b == gap_backspace(gm)
         IN  IF b.ret = 1
             THEN [st EXCEPT !.g = b.g,
                             !.E.history = history_push(st.E.history,
                                                        EDIT_DELETE_NEWLINE, pos - 1, LF),
                             !.E.cy = st.E.cy - 1,
                             !.E.cx = prev_line_len,
                             !.E.dirty = 1]
             ELSE [st EXCEPT !.g = b.g]
    ELSE st

\* The DEL_KEY branch of editorProcessKeypress without a selection.
editorDelForward(st) ==
    LET pos == rowcol_to_pos(st.g, st.E.cy, st.E.cx)
        gm == gap_move(st.g, pos)
        ch == gap_char_at(gm, pos)
        d == gap_delete(gm)
    IN  IF d.ret = 1
        THEN [st EXCEPT !.g = d.g,
                        !.E.history = history_push(st.E.history, EDIT_DELETE, pos, ch),
                        !.E.dirty = 1]
        ELSE [st EXCEPT !.g = d.g]

RECURSIVE tab_loop(_, _)
tab_loop(st, i) ==
    IF i < TAB_STOP THEN tab_loop(editorInsertChar(st, SPACE), i + 1) ELSE st

\* Mutant of editorUndoKey: the cursor is not recomputed after the undo.
editorUndoKey_keeps_cursor(st) ==
    LET u == history_undo(st)
        s1 == IF u.ret = 1 THEN [u.st EXCEPT !.E.dirty = 1] ELSE u.st
    IN  [s1 EXCEPT !.E.sel = selection_clear(s1.E.sel)]

\* Mutant of editorRedoKey: the cursor and the dirty flag are set whatever
\* history_redo returned.
editorRedoKey_unchecked(st) ==
    LET r == history_redo(st)
        rc == pos_to_rowcol(r.st.g, r.st.g.gap_start)
        s1 == [r.st EXCEPT !.E.cy = rc.row, !.E.cx = rc.col, !.E.dirty = 1]
    IN  [s1 EXCEPT !.E.sel = selection_clear(s1.E.sel)]

\* The Ctrl-Z and Ctrl-Y branches: the cursor is recomputed from g.gap_start.
editorUndoKey(st) ==
    LET u == history_undo(st)
        rc == pos_to_rowcol(u.st.g, u.st.g.gap_start)
        s1 == IF u.ret = 1
              THEN [u.st EXCEPT !.E.cy = rc.row, !.E.cx = rc.col, !.E.dirty = 1]
              ELSE u.st
    IN  [s1 EXCEPT !.E.sel = selection_clear(s1.E.sel)]

editorRedoKey(st) ==
    LET r == history_redo(st)
        rc == pos_to_rowcol(r.st.g, r.st.g.gap_start)
        s1 == IF r.ret = 1
              THEN [r.st EXCEPT !.E.cy = rc.row, !.E.cx = rc.col, !.E.dirty = 1]
              ELSE r.st
    IN  [s1 EXCEPT !.E.sel = selection_clear(s1.E.sel)]

\* if (E.sel.active) selection_delete(&E.sel);
delete_if_selected(st) ==
    IF st.E.sel.active = 1 THEN selection_delete(st) ELSE st

editorProcessKeypress(st, c) ==
    IF st.E.show_welcome = 1 THEN [st EXCEPT !.E.show_welcome = 0]
    ELSE
    LET shift_pressed == is_shift_arrow(c)
        base_key == get_base_key(c)
    IN  CASE base_key = CTRL_Z -> editorUndoKey(st)
          [] base_key = CTRL_Y -> editorRedoKey(st)
          [] base_key = CTRL_C ->
               IF st.E.sel.active = 1
               THEN LET s1 == clipboard_copy(st)
                    IN  [s1 EXCEPT !.E.sel = selection_clear(s1.E.sel)]
               ELSE st
          [] base_key = CTRL_V -> clipboard_paste(delete_if_selected(st))
          [] base_key = CTRL_X ->
               IF st.E.sel.active = 1
               THEN selection_delete(clipboard_copy(st))
               ELSE st
          [] base_key = CTRL_A ->
               LET cy == count_rows(st.g) - 1
                   cx == get_line_length(st.g, cy)
               IN  [st EXCEPT !.E.cy = cy, !.E.cx = cx,
                              !.E.sel = selection_update(
                                           selection_start(st.E.sel, 0, 0), cy, cx)]
          [] base_key = ENTER -> editorInsertNewline(delete_if_selected(st))
          [] base_key = BACKSPACE \/ base_key = CTRL_H ->
               IF st.E.sel.active = 1 THEN selection_delete(st) ELSE editorDelChar(st)
          [] base_key = DEL_KEY ->
               IF st.E.sel.active = 1 THEN selection_delete(st) ELSE editorDelForward(st)
          [] base_key = TAB -> tab_loop(delete_if_selected(st), 0)
          [] base_key \in {ARROW_UP, ARROW_DOWN, ARROW_LEFT, ARROW_RIGHT} ->
               IF shift_pressed # 0
               THEN LET s1 == IF st.E.sel.active = 0
                              THEN [st EXCEPT !.E.sel =
                                       selection_start(st.E.sel, st.E.cy, st.E.cx)]
                              ELSE st
                        s2 == editorMoveCursor(s1, base_key)
                    IN  [s2 EXCEPT !.E.sel =
                            selection_update(s2.E.sel, s2.E.cy, s2.E.cx)]
               ELSE editorMoveCursor(
                       [st EXCEPT !.E.sel = IF st.E.sel.active = 1
                                            THEN selection_clear(st.E.sel)
                                            ELSE st.E.sel],
                       base_key)
          [] base_key \in {HOME_KEY, END_KEY, PAGE_UP, PAGE_DOWN} ->
               LET s1 == IF shift_pressed # 0 /\ st.E.sel.active = 0
                         THEN [st EXCEPT !.E.sel =
                                  selection_start(st.E.sel, st.E.cy, st.E.cx)]
                         ELSE st
                   s2 == editorMoveCursor(s1, base_key)
               IN  IF shift_pressed # 0
                   THEN [s2 EXCEPT !.E.sel =
                            selection_update(s2.E.sel, s2.E.cy, s2.E.cx)]
                   ELSE [s2 EXCEPT !.E.sel = selection_clear(s2.E.sel)]
          [] base_key = ESC -> [st EXCEPT !.E.sel = selection_clear(st.E.sel)]
          [] OTHER ->
               IF base_key >= 32 /\ base_key < 127
               THEN editorInsertChar(delete_if_selected(st), base_key)
               ELSE st

(* ------------------------------------------------------------------ *)
(* State after main()'s initialisation                                 *)
(* ------------------------------------------------------------------ *)

\* E as main() sets it; E.sel is static storage, so its coordinates are 0.
main_E(show_welcome) ==
    [cx |-> 0, cy |-> 0, rowoff |-> 0, dirty |-> 0,
     show_welcome |-> show_welcome,
     history |-> history_init,
     sel |-> [active |-> 0, start_row |-> 0, start_col |-> 0,
              end_row |-> 0, end_col |-> 0],
     clip |-> [data |-> <<>>, len |-> 0]]

\* A caller's destination buffer of outcap cells, not yet written.
fresh_buffer(outcap) == [i \in 1..outcap |-> Uninit]

(* ------------------------------------------------------------------ *)
(* Reference model of the text store: a plain byte sequence            *)
(* ------------------------------------------------------------------ *)

Clamp(p, lo, hi) == IF p < lo THEN lo ELSE IF p > hi THEN hi ELSE p

\* s with c inserted so that it becomes the byte at offset p.
SeqInsertAt(s, p, c) == SubSeq(s, 1, p) \o <<c>> \o SubSeq(s, p + 1, Len(s))

\* s without the byte at offset p (s itself when there is no such byte).
SeqRemoveAt(s, p) ==
    IF p < 0 \/ p >= Len(s) THEN s
    ELSE SubSeq(s, 1, p) \o SubSeq(s, p + 2, Len(s))

(* ------------------------------------------------------------------ *)
(* Specification of the gap store alone: the four edit primitives and  *)
(* gap_get, applied in any order to a freshly initialised store        *)
(* ------------------------------------------------------------------ *)

InitStore(caps) ==
    /\ \E c \in caps : g = gap_init(c)
    /\ E = main_E(0)
    /\ ref = <<>>
    /\ refpos = 0
    /\ out = [buf |-> <<>>, ret |-> 0]
    /\ last = [op |-> "init", arg |-> 0, ret |-> 0]
    /\ torn = FALSE
    /\ loaded = <<>>
    /\ saved = <<>>
    /\ edits = 0
    /\ filename = NULL
    /\ in_string = 0
    /\ abuf = <<>>

\* position(p)
Position ==
    \E p \in -1..(MaxGapLen + 1) :
        /\ ~torn
        /\ g' = gap_move(g, p)
        /\ refpos' = Clamp(p, 0, Len(ref))
        /\ last' = [op |-> "position", arg |-> p, ret |-> 0]
        /\ UNCHANGED <<E, ref, out, torn, loaded, edits, filename, in_string, abuf, saved>>

\* insert(c).  A store whose insert wrote where it must not (outside the
\* allocation, or over a stored byte) is torn: what the primitives do with
\* it afterwards is undefined, and the specification stops there.
Insert ==
    \E c \in GapBytes :
        /\ ~torn
        /\ gap_length(g) < MaxGapLen
        /\ g' = gap_insert(g, c)
        /\ torn' = (gap_insert_overflows(g) \/ g'.gap_start > g'.gap_end)
        /\ ref' = SeqInsertAt(ref, refpos, c)
        /\ refpos' = refpos + 1
        /\ last' = [op |-> "insert", arg |-> c, ret |-> 0]
        /\ UNCHANGED <<E, out, loaded, edits, filename, in_string, abuf, saved>>

\* delete_backward()
DeleteBackward ==
    /\ ~torn
    /\ g' = gap_backspace(g).g
    /\ ref' = SeqRemoveAt(ref, refpos - 1)
    /\ refpos' = IF refpos > 0 THEN refpos - 1 ELSE refpos
    /\ last' = [op |-> "delete_backward", arg |-> 0, ret |-> gap_backspace(g).ret]
    /\ UNCHANGED <<E, out, torn, loaded, edits, filename, in_string, abuf, saved>>

\* delete_forward()
DeleteForward ==
    /\ ~torn
    /\ g' = gap_delete(g).g
    /\ ref' = SeqRemoveAt(ref, refpos)
    /\ refpos' = refpos
    /\ last' = [op |-> "delete_forward", arg |-> 0, ret |-> gap_delete(g).ret]
    /\ UNCHANGED <<E, out, torn, loaded, edits, filename, in_string, abuf, saved>>

\* materialize(into, capacity) into a fresh destination
Materialize ==
    \E outcap \in 0..MaxOut :
        /\ ~torn
        /\ LET r == gap_get(g, fresh_buffer(outcap), outcap)
           IN  out' = [buf |-> r.out, ret |-> r.ret]
        /\ last' = [op |-> "materialize", arg |-> outcap, ret |-> 0]
        /\ UNCHANGED <<g, E, ref, refpos, torn, loaded, edits, filename, in_string, abuf, saved>>

NextGap == Position \/ Insert \/ DeleteBackward \/ DeleteForward \/ Materialize

\* The store as the program initialises it.
InitGap == InitStore({InitCap})

SpecGap == InitGap /\ [][NextGap]_vars

\* The store initialised with any positive capacity gap_init accepts.
InitGapAny == InitStore(1..InitCap)

SpecGapAny == InitGapAny /\ [][NextGap]_vars

\* insert(c) into an exhausted gap when malloc(newcap) returns NULL.
\* gap_insert does not test nb: memcpy(nb, ...) or memcpy(nb + newcap -
\* suffix, ...) and g->buf[g->gap_start++] = c then store through a null
\* pointer, which is undefined.  Either the store traps and the process is
\* killed, or it does not and the statements of gap_insert all run.
InsertAllocFails ==
    \E c \in GapBytes :
        /\ ~torn
        /\ last.op # "killed"
        /\ gap_length(g) < MaxGapLen
        /\ g.gap_start = g.gap_end
        /\ \/ /\ last' = [op |-> "killed", arg |-> c, ret |-> 0]
              /\ UNCHANGED <<g, E, ref, refpos, out, torn, loaded, edits, filename, in_string, abuf, saved>>
           \/ /\ g' = gap_insert_malloc_null(g)
              /\ torn' = TRUE
              /\ last' = [op |-> "insert_malloc_null", arg |-> c, ret |-> 0]
              /\ UNCHANGED <<E, ref, refpos, out, loaded, edits, filename, in_string, abuf, saved>>

\* The primitives of the store, each growth either obtaining its allocation
\* or not; a killed process takes no further step.
NextAlloc ==
    \/ (last.op # "killed" /\ Position)
    \/ (last.op # "killed" /\ Insert)
    \/ (last.op # "killed" /\ DeleteBackward)
    \/ (last.op # "killed" /\ DeleteForward)
    \/ (last.op # "killed" /\ Materialize)
    \/ InsertAllocFails

SpecAlloc == InitGap /\ [][NextAlloc]_vars

(* ------------------------------------------------------------------ *)
(* Claims about the gap store                                          *)
(* ------------------------------------------------------------------ *)

\* C1: after any sequence of position/insert/delete_backward/delete_forward
\* from an empty store, the gap buffer is observationally the reference byte
\* sequence edited at the same clamped offsets: length() is the reference
\* length, char_at(i) is the reference byte inside [0, L) and NUL outside,
\* and materialize with enough capacity returns L and the reference bytes.
C1_GapRefinesSequence ==
    /\ gap_length(g) = Len(ref)
    /\ g.gap_start = refpos
    /\ \A i \in -2..(g.cap + 2) :
          gap_char_at(g, i) = IF 0 <= i /\ i < Len(ref) THEN ref[i + 1] ELSE NUL
    /\ \A oc \in Len(ref)..(MaxGapLen + 1) :
          LET r == gap_get(g, fresh_buffer(oc), oc)
          IN  /\ r.ret = Len(ref)
              /\ SubSeq(r.out, 1, Len(ref)) = ref

\* C1 witness: a grown store with bytes on both sides of a non-empty gap,
\* right after a forward delete that removed a byte.
C1_Witness ==
    /\ last.op = "delete_forward" /\ last.ret = 1
    /\ g.cap > InitCap
    /\ 0 < g.gap_start /\ g.gap_end < g.cap
    /\ LF \in {ref[i] : i \in 1..Len(ref)}

\* C2: in every reachable state 0 <= gap_start <= gap_end <= C, the
\* allocation holds C cells, and length() = C - (gap_end - gap_start) is the
\* number of bytes on the two sides of the gap.
C2_GapInvariant ==
    /\ 0 <= g.gap_start
    /\ g.gap_start <= g.gap_end
    /\ g.gap_end <= g.cap
    /\ Len(g.buf) = g.cap
    /\ gap_length(g) = g.gap_start + (g.cap - g.gap_end)
    /\ gap_length(g) = Len(ref)

\* C2 witness: the gap is exhausted in a grown store, with bytes after it.
C2_Witness ==
    /\ g.gap_start = g.gap_end
    /\ g.cap > InitCap
    /\ 0 < g.gap_start /\ g.gap_end < g.cap

\* C9: materialize(into, capacity) with capacity < length() returns the
\* failure value and leaves every destination cell unwritten; with
\* capacity >= length() it returns length() and the destination starts with
\* the whole content (prefix then suffix), the cells after it unwritten; the
\* store is unchanged in both cases.
C9_MaterializeAllOrNothing ==
    [][last'.op = "materialize" =>
         /\ g' = g
         /\ IF last'.arg < Len(ref)
            THEN /\ out'.ret = -1
                 /\ out'.buf = fresh_buffer(last'.arg)
            ELSE /\ out'.ret = Len(ref)
                 /\ SubSeq(out'.buf, 1, Len(ref)) = ref
                 /\ SubSeq(out'.buf, Len(ref) + 1, last'.arg)
                       = fresh_buffer(last'.arg - Len(ref))]_vars

\* C9 witness: a failed materialize of a store with bytes on both sides of
\* the gap into a destination that could hold part of it.
C9_Witness ==
    /\ last.op = "materialize"
    /\ out.ret = -1
    /\ 0 < last.arg /\ last.arg < Len(ref)
    /\ 0 < g.gap_start /\ g.gap_end < g.cap

\* C10 (as claimed): an insert into an exhausted gap first enlarges the
\* capacity to C + floor(C/2) keeping the bytes on both sides, so that the
\* new byte lands in the gap inside the allocation and length() grows by 1;
\* and no step decreases the capacity.
C10_GrowthMakesRoom ==
    [][/\ g'.cap >= g.cap
       /\ (last'.op = "insert" /\ g.gap_start = g.gap_end) =>
             /\ g'.cap = g.cap + (g.cap \div 2)
             /\ g'.cap > g.cap
             /\ ~torn'
             /\ g'.gap_start <= g'.gap_end
             /\ gap_length(g') = gap_length(g) + 1
             /\ Content(g') = SeqInsertAt(Content(g), g.gap_start, last'.arg)]_vars

\* C23 (as claimed): a failed allocation during insert never leaves the
\* store torn: either the process terminates or cap, gap_start, gap_end and
\* the stored bytes are exactly as before the call; no reachable state has
\* gap boundaries set for an allocation that was not obtained.
C23_FailedAllocationKeepsStore ==
    [][last'.op \in {"killed", "insert_malloc_null"} =>
          \/ last'.op = "killed"
          \/ /\ g'.cap = g.cap
             /\ g'.gap_start = g.gap_start
             /\ g'.gap_end = g.gap_end
             /\ g'.buf = g.buf
             /\ Len(g'.buf) = g'.cap]_vars

\* C11: delete_backward() fails and changes nothing when gap_start = 0 and
\* otherwise removes exactly the byte just before the gap; delete_forward()
\* fails and changes nothing when gap_end = C and otherwise removes exactly
\* the byte just after the gap; a successful delete leaves the other bytes in
\* order and makes length() one less.
C11_DeleteOneByte ==
    [][/\ last'.op = "delete_backward" =>
             IF g.gap_start = 0
             THEN last'.ret = 0 /\ g' = g
             ELSE /\ last'.ret = 1
                  /\ Content(g') = SeqRemoveAt(Content(g), g.gap_start - 1)
                  /\ gap_length(g') = gap_length(g) - 1
                  /\ g'.gap_start = g.gap_start - 1
                  /\ g'.gap_end = g.gap_end /\ g'.cap = g.cap
       /\ last'.op = "delete_forward" =>
             IF g.gap_end = g.cap
             THEN last'.ret = 0 /\ g' = g
             ELSE /\ last'.ret = 1
                  /\ Content(g') = SeqRemoveAt(Content(g), g.gap_start)
                  /\ gap_length(g') = gap_length(g) - 1
                  /\ g'.gap_start = g.gap_start
                  /\ g'.gap_end = g.gap_end + 1 /\ g'.cap = g.cap]_vars

\* C11 witness: a backward delete has just removed a byte from the middle of
\* a grown store, bytes remaining on both sides of the gap.
C11_Witness ==
    /\ last.op = "delete_backward" /\ last.ret = 1
    /\ g.cap > InitCap
    /\ 0 < g.gap_start /\ g.gap_end < g.cap

(* ------------------------------------------------------------------ *)
(* The editor: main(), editorOpen and the key loop                     *)
(* ------------------------------------------------------------------ *)

RECURSIVE editorOpen_loop(_, _, _)
editorOpen_loop(gb, file, i) ==
    IF i <= Len(file) THEN editorOpen_loop(gap_insert(gb, file[i]), file, i + 1)
    ELSE gb

\* Mutant of editorOpen: the bytes of the file are typed in through
\* editorInsertChar, which records each of them.
editorOpen_typing(st, file) ==
    LET typed[i \in 0..Len(file)] ==
            IF i = 0 THEN st ELSE editorInsertChar(typed[i - 1], file[i])
    IN  [typed[Len(file)] EXCEPT !.E.dirty = 0]

\* editorOpen of a readable file: every byte goes through gap_insert; no
\* history record is pushed and dirty is cleared.
editorOpen(st, file) ==
    [st EXCEPT !.g = editorOpen_loop(st.g, file, 1), !.E.dirty = 0]

\* What the operating system answers to editorSave's three calls: the
\* descriptor open() returns (-1 on failure), whether ftruncate() succeeds
\* on a valid length, and the byte count write() reports (-1 on error, fewer
\* than asked on a short write).  A call that is not reached after a
\* failure has no answer of its own.
SaveResults ==
    {io \in [fd : {-1, 3}, truncated : BOOLEAN, written : -1..SaveTmpSize] :
        /\ io.fd = -1 => ~io.truncated
        /\ ~io.truncated => io.written = -1}

\* ftruncate(fd, len): a negative length is rejected with EINVAL.
ftruncate(len, io) == IF len < 0 \/ ~io.truncated THEN -1 ELSE 0

\* write(fd, tmp, len) on len >= 0: never reports more than it was asked.
write(len, io) == IF io.written > len THEN len ELSE io.written

\* Mutant of editorSave: dirty is cleared once the file could be opened,
\* whatever ftruncate and write report.
editorSave_clearing(st, fname, io) ==
    IF fname.null THEN [st |-> st, ret |-> 0, bytes |-> <<>>]
    ELSE LET r == gap_get(st.g, fresh_buffer(SaveTmpSize), SaveTmpSize)
             len == r.ret
         IN  IF io.fd # -1
             THEN [st |-> [st EXCEPT !.E.dirty = 0], ret |-> 1,
                   bytes |-> SubSeq(r.out, 1, IF len < 0 THEN 0 ELSE len)]
             ELSE [st |-> st, ret |-> 0, bytes |-> <<>>]

\* editorSave(): without a file name nothing is written.  Otherwise tmp is
\* filled by gap_get and dirty is cleared only when open, ftruncate and a
\* write of all len bytes succeed; ret tells whether that happened and bytes
\* are the len bytes of tmp handed to write.
editorSave(st, fname, io) ==
    IF fname.null THEN [st |-> st, ret |-> 0, bytes |-> <<>>]
    ELSE LET r == gap_get(st.g, fresh_buffer(SaveTmpSize), SaveTmpSize)
             len == r.ret
         IN  IF io.fd # -1 /\ ftruncate(len, io) # -1 /\ write(len, io) = len
             THEN [st |-> [st EXCEPT !.E.dirty = 0], ret |-> 1,
                   bytes |-> SubSeq(r.out, 1, len)]
             ELSE [st |-> st, ret |-> 0, bytes |-> <<>>]

\* editorProcessKeypress on Ctrl-S: the key dismisses the welcome screen
\* when it is shown and saves otherwise.
editorSaveKey(st, fname, io) ==
    IF st.E.show_welcome = 1
    THEN [st |-> [st EXCEPT !.E.show_welcome = 0], ret |-> 0, bytes |-> <<>>]
    ELSE editorSave(st, fname, io)

RECURSIVE SeqsUpTo(_, _)
SeqsUpTo(S, n) ==
    IF n = 0 THEN {<<>>}
    ELSE LET shorter == SeqsUpTo(S, n - 1)
         IN  shorter \cup {Append(s, x) : s \in {t \in shorter : Len(t) = n - 1}, x \in S}

\* The files the editor specifications open.
Files == SeqsUpTo({97, LF}, MaxFile)

\* The printable bytes they type.
TypedBytes == {97}

\* The name they are opened under: not one of the C-family extensions.
TextName == [name |-> "notes.txt", ext |-> ".txt", null |-> FALSE]

\* main() up to the key loop and its first editorRefreshScreen: with a file
\* argument the file is loaded, without one the welcome screen is shown.
main_with_file(file) ==
    editorRefreshScreen(editorOpen([g |-> gap_init(InitCap), E |-> main_E(0)], file))

main_without_file ==
    editorRefreshScreen([g |-> gap_init(InitCap), E |-> main_E(1)])

InitEdit ==
    /\ \E s0 \in {main_with_file(f) : f \in Files} \cup {main_without_file} :
          /\ g = s0.g
          /\ E = s0.E
          /\ loaded = Content(s0.g)
          /\ saved = Content(s0.g)
          /\ filename = (IF s0.E.show_welcome = 1 THEN NULL ELSE TextName)
          /\ in_string = editorRefreshScreen_draw(s0, filename, 0).in_string
          /\ abuf = editorRefreshScreen_draw(s0, filename, 0).abuf
    /\ ref = <<>>
    /\ refpos = 0
    /\ out = [buf |-> <<>>, ret |-> 0]
    /\ last = [op |-> "init", arg |-> 0, ret |-> 0]
    /\ torn = FALSE
    /\ edits = 0

\* One turn of main()'s loop: editorProcessKeypress on key c, then the
\* editorRefreshScreen that follows it, scrolling and drawing.  `edits` counts the turns that pushed
\* history records.  `last` tells the undo and redo keys from the other keys
\* and holds what history_undo / history_redo returned.
Press(c) ==
    LET s0 == [g |-> g, E |-> E]
        s1 == editorRefreshScreen(editorProcessKeypress(s0, c))
        welcome == E.show_welcome = 1
        pushed == c \notin {CTRL_Z, CTRL_Y} /\ s1.E.history # E.history
        drawn == editorRefreshScreen_draw([g |-> g', E |-> E'], filename, in_string)
    IN  /\ pushed => edits < (IF c \in {CTRL_X, CTRL_V} THEN MaxClipEdits ELSE MaxEdits)
        /\ gap_length(s1.g) <= MaxLen
        /\ g' = s1.g
        /\ E' = s1.E
        /\ edits' = IF pushed THEN edits + 1 ELSE edits
        /\ last' = CASE c = CTRL_Z /\ ~welcome ->
                          [op |-> "undo", arg |-> c, ret |-> history_undo(s0).ret]
                     [] c = CTRL_Y /\ ~welcome ->
                          [op |-> "redo", arg |-> c, ret |-> history_redo(s0).ret]
                     [] OTHER -> [op |-> "key", arg |-> 0, ret |-> 0]
        /\ in_string' = drawn.in_string
        /\ abuf' = drawn.abuf
        /\ UNCHANGED <<ref, refpos, out, torn, loaded, filename, saved>>

KeyChar == \E c \in TypedBytes : Press(c)
KeyEnter == Press(ENTER)
KeyTab == Press(TAB)
KeyBackspace == Press(BACKSPACE)
KeyDelete == Press(DEL_KEY)
KeyUndo == Press(CTRL_Z)
KeyRedo == Press(CTRL_Y)
KeyArrow == \E k \in {ARROW_LEFT, ARROW_RIGHT, ARROW_UP, ARROW_DOWN} : Press(k)
KeyShiftArrow ==
    \E k \in {ARROW_LEFT, ARROW_RIGHT, ARROW_UP, ARROW_DOWN} : Press(k + SHIFT)
KeyHome == Press(HOME_KEY)
KeyEnd == Press(END_KEY)
KeyPageUp == Press(PAGE_UP)
KeyPageDown == Press(PAGE_DOWN)
KeyCopy == Press(CTRL_C)
KeyCut == Press(CTRL_X)
KeyPaste == Press(CTRL_V)
KeyShiftJump ==
    \E k \in {HOME_KEY, END_KEY, PAGE_UP, PAGE_DOWN} : Press(k + SHIFT)
KeySelectAll == Press(CTRL_A)
KeyEscape == Press(ESC)

\* Typing, deleting and moving (paging included), starting from a loaded
\* file or the welcome screen.
NextKeys ==
    \/ KeyChar \/ KeyEnter \/ KeyTab \/ KeyBackspace \/ KeyDelete
    \/ KeyArrow \/ KeyHome \/ KeyEnd \/ KeyPageUp \/ KeyPageDown

SpecKeys == InitEdit /\ [][NextKeys]_vars

\* Typing, deleting, moving and paging together with the undo and redo keys.
NextHist ==
    \/ KeyChar \/ KeyEnter \/ KeyBackspace \/ KeyDelete
    \/ KeyUndo \/ KeyRedo
    \/ KeyArrow \/ KeyPageUp \/ KeyPageDown

SpecHist == InitEdit /\ [][NextHist]_vars

\* Selecting with Shift+arrows and Ctrl-A, moving, Escape and copying: the
\* content stays as loaded.
NextSel == KeyShiftArrow \/ KeyArrow \/ KeySelectAll \/ KeyEscape \/ KeyCopy

SpecSel == InitEdit /\ [][NextSel]_vars

\* Selecting, copying, cutting and pasting, at most MaxClipEdits cuts and
\* pastes in a run.
NextClip ==
    \/ KeyShiftArrow \/ KeySelectAll \/ KeyEscape
    \/ KeyCopy \/ KeyCut \/ KeyPaste

SpecClip == InitEdit /\ [][NextClip]_vars

(* ------------------------------------------------------------------ *)
(* Claims about history                                                *)
(* ------------------------------------------------------------------ *)

\* The state of the program as one record, as the handlers take it.
Now == [g |-> g, E |-> E]

\* main() with a file argument, the load as a step of its own: the state
\* before editorOpen, then editorOpen with the first editorRefreshScreen,
\* then the key loop.  When the file cannot be opened editorOpen returns at
\* once and the key loop starts on the empty store.
InitStart ==
    /\ g = gap_init(InitCap)
    /\ E = main_E(0)
    /\ ref = <<>>
    /\ refpos = 0
    /\ out = [buf |-> <<>>, ret |-> 0]
    /\ last = [op |-> "start", arg |-> 0, ret |-> 0]
    /\ torn = FALSE
    /\ loaded = <<>>
    /\ saved = <<>>
    /\ edits = 0
    /\ filename = NULL
    /\ in_string = 0
    /\ abuf = <<>>

\* The files SpecLoad opens: long enough for the store to grow while loading.
LoadFiles == SeqsUpTo({97, LF}, MaxLoad)

OpenFile ==
    \E file \in LoadFiles :
        LET s1 == editorRefreshScreen(editorOpen(Now, file))
            drawn == editorRefreshScreen_draw([g |-> g', E |-> E'], TextName, in_string)
        IN  /\ last.op = "start"
            /\ g' = s1.g
            /\ E' = s1.E
            /\ loaded' = file
            /\ saved' = Content(s1.g)
            /\ filename' = TextName
            /\ in_string' = drawn.in_string
            /\ abuf' = drawn.abuf
            /\ last' = [op |-> "open", arg |-> Len(file), ret |-> 0]
            /\ UNCHANGED <<ref, refpos, out, torn, edits>>

\* The files SpecPaint opens: quotes, backslashes (92), a letter and line
\* feeds, under a C-family name or a plain one.
PaintBytes == {QUOTE, 92, 97, LF}

PaintFiles == SeqsUpTo(PaintBytes, MaxPaintFile)

CName == [name |-> "main.c", ext |-> ".c", null |-> FALSE]

\* main() with a file argument up to the key loop and its first
\* editorRefreshScreen, which draws with in_string as the loader left it.
InitPaint ==
    /\ \E f \in PaintFiles, n \in {CName, TextName} :
          LET s0 == main_with_file(f)
          IN  /\ g = s0.g
              /\ E = s0.E
              /\ loaded = f
              /\ saved = f
              /\ filename = n
              /\ in_string = editorRefreshScreen_draw(s0, n, 0).in_string
              /\ abuf = editorRefreshScreen_draw(s0, n, 0).abuf
    /\ ref = <<>>
    /\ refpos = 0
    /\ out = [buf |-> <<>>, ret |-> 0]
    /\ last = [op |-> "init", arg |-> 0, ret |-> 0]
    /\ torn = FALSE
    /\ edits = 0

\* Moving, selecting and Escape over a file that is drawn highlighted.
NextPaint == KeyArrow \/ KeyShiftArrow \/ KeyEscape

SpecPaint == InitPaint /\ [][NextPaint]_vars

\* The files SpecIndent opens: lines that start with spaces and tabs.
IndentFiles == SeqsUpTo({SPACE, TAB, 97, LF}, MaxIndentFile)

InitIndent ==
    /\ \E f \in IndentFiles :
          LET s0 == main_with_file(f)
          IN  /\ g = s0.g
              /\ E = s0.E
              /\ loaded = f
              /\ saved = f
              /\ filename = TextName
              /\ in_string = editorRefreshScreen_draw(s0, TextName, 0).in_string
              /\ abuf = editorRefreshScreen_draw(s0, TextName, 0).abuf
    /\ ref = <<>>
    /\ refpos = 0
    /\ out = [buf |-> <<>>, ret |-> 0]
    /\ last = [op |-> "init", arg |-> 0, ret |-> 0]
    /\ torn = FALSE
    /\ edits = 0

\* Enter, moving and paging over indented lines.
NextIndent == KeyEnter \/ KeyArrow \/ KeyPageDown \/ KeyBackspace

SpecIndent == InitIndent /\ [][NextIndent]_vars

\* Every key that moves the cursor, with and without Shift, Escape, and the
\* keys that consume a selection.
NextMove ==
    \/ KeyArrow \/ KeyHome \/ KeyEnd \/ KeyPageUp \/ KeyPageDown
    \/ KeyShiftArrow \/ KeyShiftJump \/ KeySelectAll \/ KeyEscape
    \/ KeyCut \/ KeyBackspace \/ KeyDelete

SpecMove == InitEdit /\ [][NextMove]_vars

NextLoad == OpenFile \/ KeyUndo \/ KeyRedo \/ KeyChar \/ KeyBackspace

SpecLoad == InitStart /\ [][NextLoad]_vars

\* Ctrl-Z pressed until history_undo reports that nothing is left to undo.
RECURSIVE undo_all(_)
undo_all(st) ==
    IF history_undo(st).ret = 0 THEN st ELSE undo_all(editorUndoKey(st))

\* C3 (as claimed): after any sequence of editing and movement keys from a
\* state with empty history, undoing until undo fails gives back exactly the
\* content the store had when the history was empty.
C3_UndoAllRestoresLoaded ==
    E.show_welcome = 0 => Content(undo_all(Now).g) = loaded

\* cs typed one byte after the other by editorInsertChar.
RECURSIVE insert_run(_, _, _)
insert_run(st, cs, i) ==
    IF i <= Len(cs) THEN insert_run(editorInsertChar(st, cs[i]), cs, i + 1) ELSE st

RECURSIVE undo_times(_, _)
undo_times(st, n) == IF n = 0 THEN st ELSE undo_times(history_undo(st).st, n - 1)

RECURSIVE redo_times(_, _)
redo_times(st, n) == IF n = 0 THEN st ELSE redo_times(history_redo(st).st, n - 1)

\* The runs of inserted bytes tried: 'a' and 'X', one to MaxRun of them.
Runs == SeqsUpTo({97, 88}, MaxRun) \ {<<>>}

\* C4: from any state the editor reaches, N single-character inserts at the
\* cursor followed by exactly N undos give back the content before the
\* inserts (and fewer undos do not), and N redos after that give back the
\* content after the inserts; the inserts put the bytes, in order, at the
\* cursor's offset.
C4_InsertsUndoRedo ==
    E.show_welcome = 0 =>
        \A cs \in Runs :
            LET n == Len(cs)
                pos == rowcol_to_pos(g, E.cy, E.cx)
                before == Content(g)
                s1 == insert_run(Now, cs, 1)
                s2 == undo_times(s1, n)
                s3 == redo_times(s2, n)
            IN  /\ Content(s1.g) = SubSeq(before, 1, pos) \o cs
                                      \o SubSeq(before, pos + 1, Len(before))
                /\ Content(s2.g) = before
                /\ \A k \in 0..(n - 1) : Content(undo_times(s1, k).g) # before
                /\ s2.E.history.undoStack = E.history.undoStack
                /\ Content(s3.g) = Content(s1.g)
                /\ s3.E.history = s1.E.history

\* C4 witness: two typed bytes at consecutive offsets, undone and redone by
\* the undo and redo keys (the redo stack is empty again after a redo), in
\* the middle of a loaded file.
C4_Witness ==
    /\ last.op = "redo" /\ last.ret = 1
    /\ E.history.redoStack = <<>>
    /\ Len(E.history.undoStack) = 2
    /\ E.history.undoStack[1].type = EDIT_INSERT
    /\ E.history.undoStack[2].type = EDIT_INSERT
    /\ E.history.undoStack[1].pos = E.history.undoStack[2].pos + 1
    /\ E.history.undoStack[2].pos > 0
    /\ Len(loaded) = 2
    /\ Content(g) = SeqInsertAt(SeqInsertAt(loaded, 1, 97), 2, 97)

\* C5: a key press that pushes a history record leaves the redo stack
\* empty, whatever it held, so that a redo right after it fails and changes
\* nothing.
C5_PushClearsRedo ==
    [][edits' = edits + 1 =>
          /\ E'.history.redoStack = <<>>
          /\ history_redo([g |-> g', E |-> E']).ret = 0
          /\ history_redo([g |-> g', E |-> E']).st = [g |-> g', E |-> E']
          /\ editorRedoKey([g |-> g', E |-> E']).g = g'
          /\ editorRedoKey([g |-> g', E |-> E']).E.history = E'.history]_vars

\* C5 witness: two edits were made and a single record is left, so the
\* second edit was pushed after the first was undone and discarded it from
\* the redo stack.
C5_Witness ==
    /\ edits = 2
    /\ last.op = "key"
    /\ Len(E.history.undoStack) = 1
    /\ E.history.redoStack = <<>>

\* What the inverse of record e does to content s of length L: the byte at
\* the (clamped) position is removed, or the recorded byte is put back there.
InverseOn(s, e) ==
    LET p == Clamp(e.pos, 0, Len(s))
    IN  CASE e.type = EDIT_INSERT -> SeqRemoveAt(s, p)
          [] e.type = EDIT_INSERT_NEWLINE -> SeqRemoveAt(s, p)
          [] e.type = EDIT_DELETE -> SeqInsertAt(s, p, e.ch)
          [] e.type = EDIT_DELETE_NEWLINE -> SeqInsertAt(s, p, LF)

\* What re-applying record e does to content s.
ReapplyOn(s, e) ==
    LET p == Clamp(e.pos, 0, Len(s))
    IN  CASE e.type = EDIT_INSERT -> SeqInsertAt(s, p, e.ch)
          [] e.type = EDIT_INSERT_NEWLINE -> SeqInsertAt(s, p, LF)
          [] e.type = EDIT_DELETE -> SeqRemoveAt(s, p)
          [] e.type = EDIT_DELETE_NEWLINE -> SeqRemoveAt(s, p)

\* Where the gap starts after a primitive applied at the record's position:
\* at the position after a delete_forward, one further after an insert.
GapAfter(s, e, inserts) ==
    LET p == Clamp(e.pos, 0, Len(s))
    IN  IF e.type \in inserts THEN p + 1 ELSE p

\* C6: a successful undo moves exactly the top record of the undo stack to
\* the top of the redo stack, the other records staying in order, positions
\* the store at the record's position and applies the inverse primitive there
\* (delete_forward for Insert/InsertNewline, insert of the recorded byte for
\* Delete, insert of LF for DeleteNewline); a successful redo is the mirror
\* image and re-applies the original primitive.
C6_UndoRedoStep ==
    [][/\ (last'.op = "undo" /\ last'.ret = 1) =>
             LET e == Head(E.history.undoStack)
             IN  /\ E'.history.undoStack = Tail(E.history.undoStack)
                 /\ E'.history.redoStack = <<e>> \o E.history.redoStack
                 /\ Content(g') = InverseOn(Content(g), e)
                 /\ g'.gap_start = GapAfter(Content(g), e,
                                            {EDIT_DELETE, EDIT_DELETE_NEWLINE})
       /\ (last'.op = "redo" /\ last'.ret = 1) =>
             LET e == Head(E.history.redoStack)
             IN  /\ E'.history.redoStack = Tail(E.history.redoStack)
                 /\ E'.history.undoStack = <<e>> \o E.history.undoStack
                 /\ Content(g') = ReapplyOn(Content(g), e)
                 /\ g'.gap_start = GapAfter(Content(g), e,
                                            {EDIT_INSERT, EDIT_INSERT_NEWLINE})]_vars

\* C6 witness: the undo key has just undone a DeleteNewline record, with
\* another record below it and bytes on both sides of the gap.
C6_Witness ==
    /\ last.op = "undo" /\ last.ret = 1
    /\ E.history.redoStack # <<>>
    /\ Head(E.history.redoStack).type = EDIT_DELETE_NEWLINE
    /\ E.history.undoStack # <<>>
    /\ 0 < g.gap_start /\ g.gap_end < g.cap

\* C7 (as claimed): after a successful undo the cursor set by the undo key
\* is position_to_rowcol(record.position), for every record kind.
C7_CursorAtRecordPosition ==
    [][(last'.op = "undo" /\ last'.ret = 1) =>
          LET e == Head(E.history.undoStack)
              rc == pos_to_rowcol(g', e.pos)
          IN  E'.cy = rc.row /\ E'.cx = rc.col]_vars

\* C7 (amended): after a successful undo the cursor set by the undo key is
\* position_to_rowcol of where the gap starts after the inverse edit: the
\* record's position (clamped to the length) when an Insert or InsertNewline
\* was undone, and one byte further, right after the re-inserted byte, when a
\* Delete or DeleteNewline was undone.
C7_CursorAfterInverse ==
    [][(last'.op = "undo" /\ last'.ret = 1) =>
          LET e == Head(E.history.undoStack)
              p == Clamp(e.pos, 0, gap_length(g))
              q == IF e.type \in {EDIT_DELETE, EDIT_DELETE_NEWLINE} THEN p + 1 ELSE p
              rc == pos_to_rowcol(g', q)
          IN  E'.cy = rc.row /\ E'.cx = rc.col]_vars

\* C7 witness: the undo key has just put back a deleted byte that is not
\* the first byte of the buffer, and the cursor is behind it.
C7_Witness ==
    /\ last.op = "undo" /\ last.ret = 1
    /\ Head(E.history.redoStack).type = EDIT_DELETE
    /\ Head(E.history.redoStack).pos > 0
    /\ rowcol_to_pos(g, E.cy, E.cx) = Head(E.history.redoStack).pos + 1

\* C8: the undo key with an empty undo stack, and the redo key with an
\* empty redo stack, get the failure indicator and leave the content, the
\* gap, both stacks, the cursor and the dirty flag as they were.
C8_NothingToUndoRedo ==
    [][((last'.op = "undo" /\ E.history.undoStack = <<>>)
        \/ (last'.op = "redo" /\ E.history.redoStack = <<>>)) =>
          /\ last'.ret = 0
          /\ g' = g
          /\ E'.history = E.history
          /\ E'.cx = E.cx /\ E'.cy = E.cy
          /\ E'.dirty = E.dirty]_vars

\* C8 witness: the undo key failed after everything had been undone; the
\* buffer is dirty, the redo stack holds the undone records and the cursor
\* is not at the start of the buffer.
C8_Witness ==
    /\ last.op = "undo" /\ last.ret = 0
    /\ E.history.undoStack = <<>>
    /\ E.history.redoStack # <<>>
    /\ E.dirty = 1
    /\ E.cx > 0

(* ------------------------------------------------------------------ *)
(* Claims about the coordinate mapper                                  *)
(* ------------------------------------------------------------------ *)

\* Rows and columns of a plain byte sequence s, counted directly.
LineFeedsBefore(s, p) == Cardinality({j \in 1..p : s[j] = LF})

\* Bytes between the last line feed before offset p (or the start) and p.
BytesSinceLineFeed(s, p) ==
    LET lfs == {j \in 1..p : s[j] = LF}
    IN  IF lfs = {} THEN p
        ELSE p - (CHOOSE j \in lfs : \A k \in lfs : k <= j)

RowCount(s) == 1 + LineFeedsBefore(s, Len(s))

\* Offset of the first byte of a row (row < RowCount(s)).
RowStart(s, row) ==
    CHOOSE p \in 0..Len(s) :
        /\ LineFeedsBefore(s, p) = row
        /\ \A q \in 0..(p - 1) : LineFeedsBefore(s, q) < row

\* Bytes of a row, its line feed excluded.
LineLength(s, row) ==
    LET start == RowStart(s, row)
        ends == {q \in start..Len(s) : q = Len(s) \/ s[q + 1] = LF}
    IN  (CHOOSE q \in ends : \A k \in ends : q <= k) - start

\* The coordinates tried beyond the buffer: one past the longest content.
MaxCoord == MaxGapLen + 1

\* C12: coordinate round trip, for every content and every gap location:
\* rowcol_to_position(position_to_rowcol(p)) = p for every p in [0, L], and
\* position_to_rowcol(rowcol_to_position(row, col)) = (row, col) for every
\* existing row and every col up to that row's length.
C12_CoordinateRoundTrip ==
    /\ \A p \in 0..gap_length(g) :
          LET rc == pos_to_rowcol(g, p)
          IN  rowcol_to_pos(g, rc.row, rc.col) = p
    /\ \A row \in 0..(RowCount(ref) - 1) :
          \A col \in 0..LineLength(ref, row) :
             pos_to_rowcol(g, rowcol_to_pos(g, row, col)) = [row |-> row, col |-> col]

\* C12 witness: two rows, the second not empty, the gap open in the middle
\* of the content, and the round trip of the last position goes through
\* (1, col > 0).
C12_Witness ==
    /\ RowCount(ref) >= 2
    /\ pos_to_rowcol(g, Len(ref)).row >= 1
    /\ pos_to_rowcol(g, Len(ref)).col >= 1
    /\ 0 < g.gap_start /\ g.gap_start < gap_length(g)
    /\ g.gap_start < g.gap_end

\* The buffer "ab\ncd", loaded byte by byte, with the gap moved to offset q.
ExampleBuffer(q) ==
    gap_move(editorOpen_loop(gap_init(InitCap), <<97, 98, LF, 99, 100>>, 1), q)

\* In "ab\ncd", wherever the gap is, position_to_rowcol(3) = (1, 0) and
\* rowcol_to_position(1, 1) = 4.
ExampleRowCol ==
    \A q \in 0..5 :
        /\ Content(ExampleBuffer(q)) = <<97, 98, LF, 99, 100>>
        /\ pos_to_rowcol(ExampleBuffer(q), 3) = [row |-> 1, col |-> 0]
        /\ rowcol_to_pos(ExampleBuffer(q), 1, 1) = 4

\* C13: for every p in [0, L], position_to_rowcol(p) has row = the number of
\* line feeds at offsets [0, p) and col = the number of bytes between the last
\* of them (or the start) and p, wherever the gap is; in "ab\ncd",
\* position_to_rowcol(3) = (1, 0) and rowcol_to_position(1, 1) = 4.
C13_RowColCountsLineFeeds ==
    /\ \A p \in 0..gap_length(g) :
          /\ pos_to_rowcol(g, p) = [row |-> LineFeedsBefore(ref, p),
                                    col |-> BytesSinceLineFeed(ref, p)]
          /\ \A q \in 0..gap_length(g) :
                pos_to_rowcol(gap_move(g, q), p) = pos_to_rowcol(g, p)
    /\ ExampleRowCol

\* C13 witness: a position in row 1 or below at a column above 0, the scan
\* up to it crossing an open gap.
C13_Witness ==
    \E p \in 0..gap_length(g) :
        /\ pos_to_rowcol(g, p).row >= 1
        /\ pos_to_rowcol(g, p).col >= 1
        /\ 0 < g.gap_start /\ g.gap_start < p
        /\ g.gap_start < g.gap_end
        /\ last.op = "position"

\* C14: rowcol_to_position clamps: for any row >= 0 and col >= 0 the result
\* is in [0, L]; for an existing row it is the row's start offset plus
\* min(col, line_length(row)), so a col past the line's length gives the line
\* end, before the line feed; for a row >= row_count() it is L.
C14_RowColToPosClamps ==
    /\ count_rows(g) = RowCount(ref)
    /\ \A row \in 0..MaxCoord :
          IF row < count_rows(g)
          THEN LET len == get_line_length(g, row)
                   start == RowStart(ref, row)
               IN  /\ len = LineLength(ref, row)
                   /\ \A col \in 0..MaxCoord :
                         LET r == rowcol_to_pos(g, row, col)
                         IN  /\ 0 <= r /\ r <= gap_length(g)
                             /\ r = start + (IF col < len THEN col ELSE len)
                             /\ col >= len =>
                                   (r = gap_length(g) \/ gap_char_at(g, r) = LF)
                             /\ pos_to_rowcol(g, r).row = row
          ELSE \A col \in 0..MaxCoord :
                  rowcol_to_pos(g, row, col) = gap_length(g)

\* C14 witness: two rows, the first one byte long; a column past its end
\* gives the offset of its line feed, and a row past the last gives L, with
\* the gap open inside the content.
C14_Witness ==
    /\ count_rows(g) = 2
    /\ get_line_length(g, 0) = 1
    /\ rowcol_to_pos(g, 0, MaxCoord) = 1
    /\ gap_char_at(g, 1) = LF
    /\ rowcol_to_pos(g, 2, 0) = gap_length(g)
    /\ gap_length(g) = 3
    /\ 0 < g.gap_start /\ g.gap_start < gap_length(g)

(* ------------------------------------------------------------------ *)
(* Claims about the selection                                          *)
(* ------------------------------------------------------------------ *)

\* (r1, c1) before (r2, c2) in lexicographic (row, col) order.
LexLess(r1, c1, r2, c2) == r1 < r2 \/ (r1 = r2 /\ c1 < c2)

LexLessEq(r1, c1, r2, c2) == r1 < r2 \/ (r1 = r2 /\ c1 <= c2)

SelCoords == 0..MaxSelCoord

\* begin(r1, c1); extend(r2, c2)
BeginExtend(r1, c1, r2, c2) ==
    selection_update(selection_start(main_E(0).sel, r1, c1), r2, c2)

\* Containment after begin(a); extend(b) and after begin(b); extend(a), for
\* all endpoints and coordinates in SelCoords.
ContainsSymmetric ==
    \A r1 \in SelCoords, c1 \in SelCoords, r2 \in SelCoords, c2 \in SelCoords :
       \A row \in SelCoords, col \in SelCoords :
          selection_contains(BeginExtend(r1, c1, r2, c2), row, col)
            = selection_contains(BeginExtend(r2, c2, r1, c1), row, col)

\* C15: containment does not depend on the order of the endpoints: for all
\* (r1, c1), (r2, c2) and every (row, col), contains after begin(r1, c1);
\* extend(r2, c2) equals contains after begin(r2, c2); extend(r1, c1).  The
\* same holds of the selection the editor holds and its mirror image.
C15_ContainsOrderIndependent ==
    /\ ContainsSymmetric
    /\ E.sel.active = 1 =>
          \A row \in 0..(MaxSelCoord + 1), col \in 0..(MaxSelCoord + 1) :
             selection_contains(E.sel, row, col)
               = selection_contains(BeginExtend(E.sel.end_row, E.sel.end_col,
                                                E.sel.start_row, E.sel.start_col),
                                    row, col)

\* C15 witness: the editor holds a backward selection over more than one
\* row (the anchor is after the cursor) that contains its end point's
\* coordinate, made with Shift+arrows.
C15_Witness ==
    /\ E.sel.active = 1
    /\ E.sel.start_row > E.sel.end_row
    /\ E.cy = E.sel.end_row /\ E.cx = E.sel.end_col
    /\ selection_contains(E.sel, E.sel.end_row, E.sel.end_col)
    /\ ~selection_contains(E.sel, E.sel.start_row, E.sel.start_col)

\* Containment against the lexicographic order, for all endpoints and
\* coordinates in SelCoords, active and cleared.
ContainsLexicographic ==
    \A r1 \in SelCoords, c1 \in SelCoords, r2 \in SelCoords, c2 \in SelCoords :
       \A row \in SelCoords, col \in SelCoords :
          LET sel == BeginExtend(r1, c1, r2, c2)
              fwd == LexLessEq(r1, c1, r2, c2)
              sr == IF fwd THEN r1 ELSE r2
              sc == IF fwd THEN c1 ELSE c2
              er == IF fwd THEN r2 ELSE r1
              ec == IF fwd THEN c2 ELSE c1
          IN  /\ selection_contains(sel, row, col)
                    = (LexLessEq(sr, sc, row, col) /\ LexLess(row, col, er, ec))
              /\ ~selection_contains(selection_clear(sel), row, col)

\* C16: contains(row, col) is false for an inactive selection; for an
\* active one, with start <= end the endpoints in lexicographic order, it is
\* true exactly when start <= (row, col) < end in that order (start
\* included, end excluded, rows in between whole, nothing when start = end).
C16_ContainsHalfOpen ==
    /\ ContainsLexicographic
    /\ \A row \in 0..(MaxSelCoord + 1), col \in 0..(MaxSelCoord + 1) :
          LET fwd == LexLessEq(E.sel.start_row, E.sel.start_col,
                               E.sel.end_row, E.sel.end_col)
              sr == IF fwd THEN E.sel.start_row ELSE E.sel.end_row
              sc == IF fwd THEN E.sel.start_col ELSE E.sel.end_col
              er == IF fwd THEN E.sel.end_row ELSE E.sel.start_row
              ec == IF fwd THEN E.sel.end_col ELSE E.sel.start_col
          IN  selection_contains(E.sel, row, col)
                = (/\ E.sel.active = 1
                   /\ LexLessEq(sr, sc, row, col)
                   /\ LexLess(row, col, er, ec))

\* C16 witness: the editor holds an active selection from row 0 to row 2
\* made by Ctrl-A; every column of row 1 is inside, the end point is not.
C16_Witness ==
    /\ E.sel.active = 1
    /\ E.sel.start_row = 0 /\ E.sel.end_row = 2
    /\ \A col \in SelCoords : selection_contains(E.sel, 1, col)
    /\ selection_contains(E.sel, 0, E.sel.start_col)
    /\ ~selection_contains(E.sel, 2, E.sel.end_col)

(* ------------------------------------------------------------------ *)
(* Claims about the clipboard                                          *)
(* ------------------------------------------------------------------ *)

\* The logical offsets [lo, hi) of the selection of st: its endpoints put in
\* lexicographic order and translated by rowcol_to_pos.
SelRange(st) ==
    LET s == st.E.sel
        a == rowcol_to_pos(st.g, s.start_row, s.start_col)
        b == rowcol_to_pos(st.g, s.end_row, s.end_col)
    IN  IF LexLessEq(s.start_row, s.start_col, s.end_row, s.end_col)
        THEN [lo |-> a, hi |-> b]
        ELSE [lo |-> b, hi |-> a]

\* The bytes of st's content at the offsets of its selection.
SelBytes(st) == SubSeq(Content(st.g), SelRange(st).lo + 1, SelRange(st).hi)

\* A clipboard holding exactly the bytes bs.
ClipOf(bs) == [data |-> bs, len |-> Len(bs)]

\* C17: copy of an active selection with a non-empty normalized range
\* replaces the clipboard by exactly the bytes of the content at offsets
\* start_pos..end_pos-1, in order, whatever the order of the endpoints and
\* whatever the clipboard held, and leaves the content and both history
\* stacks as they were.  (Checked of clipboard_copy in every state, of the
\* Ctrl-C key, and of the copy that Ctrl-X starts with.)
C17_CopyReplacesClipboard ==
    [][(/\ E.show_welcome = 0
        /\ E.sel.active = 1
        /\ SelRange(Now).lo < SelRange(Now).hi) =>
          LET s1 == clipboard_copy(Now)
          IN  /\ s1.E.clip = ClipOf(SelBytes(Now))
              /\ s1.E.clip.len = SelRange(Now).hi - SelRange(Now).lo
              /\ s1.g = g
              /\ s1.E.history = E.history
              /\ KeyCopy => /\ E'.clip = ClipOf(SelBytes(Now))
                            /\ g' = g
                            /\ E'.history = E.history
              /\ KeyCut => E'.clip = ClipOf(SelBytes(Now))]_vars

\* C17 witness: a cut put 'a' on the clipboard and its record in the
\* history; a later copy has replaced the clipboard by a line feed, the
\* record still being there.
C17_Witness ==
    /\ E.clip = ClipOf(<<LF>>)
    /\ E.sel.active = 0
    /\ Len(E.history.undoStack) = 1
    /\ Head(E.history.undoStack).type = EDIT_DELETE
    /\ Head(E.history.undoStack).ch = 97
    /\ LF \in {Content(g)[i] : i \in 1..gap_length(g)}

\* C18: the empty cases are no-ops: copy with an inactive selection or an
\* empty normalized range leaves the clipboard (data and len) unchanged;
\* paste with an empty clipboard leaves the content, both history stacks,
\* the cursor and the dirty flag unchanged.
C18_EmptyCasesAreNoOps ==
    E.show_welcome = 0 =>
        /\ (E.sel.active = 0 \/ SelRange(Now).lo >= SelRange(Now).hi) =>
              /\ clipboard_copy(Now).E.clip = E.clip
              /\ editorProcessKeypress(Now, CTRL_C).E.clip = E.clip
        /\ E.clip.len = 0 =>
              LET s1 == clipboard_paste(Now)
              IN  /\ s1.g = g
                  /\ Content(s1.g) = Content(g)
                  /\ s1.E.history = E.history
                  /\ s1.E.cx = E.cx /\ s1.E.cy = E.cy
                  /\ s1.E.dirty = E.dirty
                  /\ E.sel.active = 0 =>
                        editorProcessKeypress(Now, CTRL_V) = Now

\* C18 witness: the clipboard holds bytes and the selection is active with
\* both endpoints at the same place, away from the start of the buffer: a
\* copy here has nothing to copy.
C18_Witness ==
    /\ E.clip.len > 0
    /\ E.sel.active = 1
    /\ E.sel.start_row = E.sel.end_row /\ E.sel.start_col = E.sel.end_col
    /\ SelRange(Now).lo = SelRange(Now).hi
    /\ SelRange(Now).lo > 0
    /\ E.history.undoStack # <<>>

\* The Delete records selection_delete pushes for the removed bytes bs, the
\* record of the last removed byte on top.
DeleteRecordsMatch(recs, bs) ==
    /\ Len(recs) = Len(bs)
    /\ \A i \in 1..Len(bs) :
          /\ recs[Len(bs) - i + 1].type = EDIT_DELETE
          /\ recs[Len(bs) - i + 1].ch = bs[i]

\* What delete(selection) must have done between st and s1: the bytes of
\* the selection are gone, one Delete record per byte is on the undo stack,
\* the cursor is at the normalized selection start, the selection inactive.
SelectionDeleted(st, s1) ==
    LET r == SelRange(st)
        k == r.hi - r.lo
        before == Content(st.g)
        s == st.E.sel
        fwd == LexLessEq(s.start_row, s.start_col, s.end_row, s.end_col)
    IN  /\ Content(s1.g) = SubSeq(before, 1, r.lo)
                               \o SubSeq(before, r.hi + 1, Len(before))
        /\ gap_length(s1.g) = gap_length(st.g) - k
        /\ Len(s1.E.history.undoStack) = Len(st.E.history.undoStack) + k
        /\ DeleteRecordsMatch(SubSeq(s1.E.history.undoStack, 1, k), SelBytes(st))
        /\ SubSeq(s1.E.history.undoStack, k + 1, Len(s1.E.history.undoStack))
              = st.E.history.undoStack
        /\ s1.E.cy = (IF fwd THEN s.start_row ELSE s.end_row)
        /\ s1.E.cx = (IF fwd THEN s.start_col ELSE s.end_col)
        /\ s1.E.sel.active = 0

\* C19 (as claimed): delete(selection) on an active selection removes
\* exactly the bytes at [start_pos, end_pos), pushes one Delete record per
\* removed byte carrying it, puts the cursor at the normalized selection
\* start and makes the selection inactive; and after cut the clipboard holds
\* exactly the removed bytes.
C19_DeleteAndCutClipboard ==
    [][(E.show_welcome = 0 /\ E.sel.active = 1) =>
          /\ SelectionDeleted(Now, selection_delete(Now))
          /\ KeyCut => /\ SelectionDeleted(Now, [g |-> g', E |-> E'])
                       /\ E'.clip = ClipOf(SelBytes(Now))]_vars

\* C19 (amended): as above, but after a cut the clipboard holds exactly the
\* removed bytes when the range is not empty; a cut of an empty range
\* removes nothing and leaves the clipboard as it was.
C19_DeleteAndCutNonEmpty ==
    [][(E.show_welcome = 0 /\ E.sel.active = 1) =>
          /\ SelectionDeleted(Now, selection_delete(Now))
          /\ KeyCut => /\ SelectionDeleted(Now, [g |-> g', E |-> E'])
                       /\ E'.clip = (IF SelBytes(Now) # <<>>
                                      THEN ClipOf(SelBytes(Now))
                                      ELSE E.clip)]_vars

\* C19 witness: a two-byte file was selected whole by a backward selection
\* and cut: the content is empty, the two Delete records carry its bytes,
\* the clipboard holds them and the cursor is at the start.
C19_Witness ==
    /\ Len(loaded) = 2
    /\ loaded[1] # loaded[2]
    /\ Content(g) = <<>>
    /\ E.clip = ClipOf(loaded)
    /\ Len(E.history.undoStack) = 2
    /\ DeleteRecordsMatch(E.history.undoStack, loaded)
    /\ E.sel.active = 0
    /\ LexLess(E.sel.end_row, E.sel.end_col, E.sel.start_row, E.sel.start_col)
    /\ E.cy = 0 /\ E.cx = 0
    /\ E.dirty = 1

\* The Insert records clipboard_paste pushes for the bytes bs pasted at
\* offset pos, the record of the last byte on top: the i-th byte (from 0) is
\* recorded at pos + i.
InsertRecordsMatch(recs, bs, pos) ==
    /\ Len(recs) = Len(bs)
    /\ \A i \in 1..Len(bs) :
          recs[Len(bs) - i + 1] =
             [type |-> EDIT_INSERT, pos |-> pos + (i - 1), ch |-> bs[i]]

\* What paste must have done between st and s1.
Pasted(st, s1) ==
    LET k == st.E.clip.len
        pos == rowcol_to_pos(st.g, st.E.cy, st.E.cx)
        before == Content(st.g)
    IN  /\ Content(s1.g) = SubSeq(before, 1, pos) \o st.E.clip.data
                               \o SubSeq(before, pos + 1, Len(before))
        /\ Len(s1.E.history.undoStack) = Len(st.E.history.undoStack) + k
        /\ InsertRecordsMatch(SubSeq(s1.E.history.undoStack, 1, k),
                              st.E.clip.data, pos)
        /\ SubSeq(s1.E.history.undoStack, k + 1, Len(s1.E.history.undoStack))
              = st.E.history.undoStack
        /\ Content(undo_times(s1, k).g) = before
        /\ undo_times(s1, k).E.history.undoStack = st.E.history.undoStack
        /\ \A j \in 0..(k - 1) : Content(undo_times(s1, j).g) # before

\* C20: paste of a non-empty clipboard of k bytes with the cursor at offset
\* pos turns the content A ++ B (|A| = pos) into A ++ clipboard ++ B and
\* pushes exactly k Insert records, the i-th with byte clipboard[i] and
\* position pos + i, so that exactly k undos give back A ++ B.  (Checked of
\* clipboard_paste in every state and of the Ctrl-V key without a selection.)
C20_PasteInsertsClipboard ==
    [][(E.show_welcome = 0 /\ E.clip.len > 0) =>
          /\ Len(E.clip.data) = E.clip.len
          /\ Pasted(Now, clipboard_paste(Now))
          /\ (KeyPaste /\ E.sel.active = 0) =>
                Pasted(Now, [g |-> g', E |-> E'])]_vars

\* C20 witness: the two different bytes of a loaded file were copied and
\* pasted between them: the content is byte 1, the clipboard, byte 2, and
\* the two Insert records carry offsets 2 and 1.
C20_Witness ==
    /\ Len(loaded) = 2
    /\ loaded[1] # loaded[2]
    /\ E.clip = ClipOf(loaded)
    /\ Content(g) = <<loaded[1]>> \o E.clip.data \o <<loaded[2]>>
    /\ Len(E.history.undoStack) = 2
    /\ InsertRecordsMatch(E.history.undoStack, E.clip.data, 1)
    /\ E.dirty = 1

\* C21 (as claimed): paste advances the cursor: after the Ctrl-V key pasted
\* a non-empty clipboard of k bytes at logical offset pos (the cursor offset
\* once a selection, if any, has been deleted), the cursor (row, col) is
\* position_to_rowcol(pos + k), immediately after the pasted bytes.
C21_PasteAdvancesCursor ==
    [][(KeyPaste /\ E.show_welcome = 0 /\ E.clip.len > 0) =>
          LET s0 == delete_if_selected(Now)
              pos == rowcol_to_pos(s0.g, s0.E.cy, s0.E.cx)
              rc == pos_to_rowcol(g', pos + E.clip.len)
          IN  E'.cy = rc.row /\ E'.cx = rc.col]_vars

(* ------------------------------------------------------------------ *)
(* Claims about loading                                                *)
(* ------------------------------------------------------------------ *)

\* C22: load is not an undoable edit: right after loading any sequence of
\* bytes the content equals the loaded bytes in order, the undo and the redo
\* stack are empty and the dirty flag is cleared; an undo pressed right
\* after the load fails with NothingToUndo and changes nothing.
C22_LoadIsNotAnEdit ==
    [][/\ last'.op = "open" =>
             /\ Content(g') = loaded'
             /\ gap_length(g') = Len(loaded')
             /\ E'.history.undoStack = <<>>
             /\ E'.history.redoStack = <<>>
             /\ E'.dirty = 0
             /\ history_undo([g |-> g', E |-> E']).ret = 0
             /\ history_undo([g |-> g', E |-> E']).st = [g |-> g', E |-> E']
       /\ (last.op = "open" /\ KeyUndo) =>
             /\ last'.ret = 0
             /\ g' = g
             /\ E' = E]_vars

\* C22 witness: the undo key has just failed right after the load of a file
\* with a line feed inside that made the store grow; the content is still
\* the file.
C22_Witness ==
    /\ last.op = "undo" /\ last.ret = 0
    /\ edits = 0
    /\ g.cap > InitCap
    /\ Len(loaded) > 2
    /\ loaded[2] = LF /\ loaded[1] = 97
    /\ Content(g) = loaded
    /\ E.history.undoStack = <<>>
    /\ E.dirty = 0

(* ------------------------------------------------------------------ *)
(* Claims about highlighting                                           *)
(* ------------------------------------------------------------------ *)

\* C24 (as claimed): the string toggle is reset at the start of each scan:
\* two successive render passes over the same unchanged content, filename,
\* viewport and selection give every drawn position the same class, however
\* many double quotes the earlier pass classified.
C24_PassesAgree ==
    [][(/\ g' = g
        /\ filename' = filename
        /\ E'.rowoff = E.rowoff
        /\ E'.sel = E.sel
        /\ E'.show_welcome = E.show_welcome) => abuf' = abuf]_vars

\* in-string after the byte at offset pos (from 0) of content in a scan from
\* the start of the buffer in which a double quote toggles the state unless
\* it is inside a string and immediately preceded by a backslash (92).
RECURSIVE InStringUnescaped(_, _)
InStringUnescaped(content, pos) ==
    IF pos < 0 THEN 0
    ELSE LET before == InStringUnescaped(content, pos - 1)
             escaped == before = 1 /\ pos > 0 /\ content[pos] \in {92}
         IN  IF content[pos + 1] = QUOTE /\ ~escaped THEN 1 - before ELSE before

\* C25 (as claimed): in a left-to-right scan of a C-family file from the
\* start of the buffer, in-string is toggled only by an unescaped double
\* quote: a quote right after a backslash inside a string does not end the
\* string, so every drawn byte is classified string exactly when it lies
\* between unescaped quotes.  (Checked of the first render pass, which finds
\* in_string clear; the files hold no digit, slash or keyword.)
C25_EscapedQuoteKeepsString ==
    (last.op = "init" /\ is_c(filename)) =>
        \A k \in 1..Len(abuf) :
            (abuf[k].hl = HL_STRING) = (InStringUnescaped(Content(g), abuf[k].pos) = 1)

(* ------------------------------------------------------------------ *)
(* Claims about auto-indentation                                       *)
(* ------------------------------------------------------------------ *)

\* The width of the leading spaces and tabs of the bytes s, a tab counted
\* as TAB_STOP.
RECURSIVE LeadingIndent(_)
LeadingIndent(s) ==
    IF s = <<>> THEN 0
    ELSE IF Head(s) = SPACE THEN 1 + LeadingIndent(Tail(s))
    ELSE IF Head(s) = TAB THEN TAB_STOP + LeadingIndent(Tail(s))
    ELSE 0

Spaces(k) == [i \in 1..k |-> SPACE]

\* The records editorInsertNewline pushes at offset pos for k spaces, the
\* record of the last space on top and the InsertNewline record below them.
NewlineRecordsMatch(recs, pos, k) ==
    /\ Len(recs) = k + 1
    /\ recs[k + 1] = [type |-> EDIT_INSERT_NEWLINE, pos |-> pos, ch |-> LF]
    /\ \A i \in 0..(k - 1) :
          recs[k - i] = [type |-> EDIT_INSERT, pos |-> pos + 1 + i, ch |-> SPACE]

\* The records Enter has pushed between st and s1: the line feed and each
\* space of the new line's inserted indentation, at consecutive positions.
EnterRecorded(st, s1) ==
    LET pos == rowcol_to_pos(st.g, st.E.cy, st.E.cx)
        k == Len(s1.E.history.undoStack) - Len(st.E.history.undoStack) - 1
    IN  /\ k >= 0
        /\ NewlineRecordsMatch(SubSeq(s1.E.history.undoStack, 1, k + 1), pos, k)
        /\ SubSeq(s1.E.history.undoStack, k + 2, Len(s1.E.history.undoStack))
              = st.E.history.undoStack
        /\ gap_length(s1.g) = gap_length(st.g) + k + 1

EnterIndented(st, s1) ==
    LET before == Content(st.g)
        pos == rowcol_to_pos(st.g, st.E.cy, st.E.cx)
        start == RowStart(before, st.E.cy)
        left == SubSeq(before, start + 1, pos)
        right == SubSeq(before, pos + 1, start + LineLength(before, st.E.cy))
        k == LeadingIndent(left)
    IN  /\ Content(s1.g) = SubSeq(before, 1, pos) \o <<LF>> \o Spaces(k)
                               \o SubSeq(before, pos + 1, Len(before))
        /\ s1.E.cy = st.E.cy + 1
        /\ s1.E.cx = k
        /\ get_line_indent(s1.g, s1.E.cy - 1) = k
        /\ get_line_indent(s1.g, s1.E.cy) = k + LeadingIndent(right)
        /\ (right = <<>> \/ Head(right) \notin {SPACE, TAB}) =>
              get_line_indent(s1.g, s1.E.cy) = get_line_indent(s1.g, s1.E.cy - 1)
        /\ EnterRecorded(st, s1)
        /\ Len(s1.E.history.undoStack) = Len(st.E.history.undoStack) + k + 1
        /\ s1.E.dirty = 1

C27_SelectionLifecycle ==
    [][/\ (KeyArrow \/ KeyHome \/ KeyEnd \/ KeyPageUp \/ KeyPageDown \/ KeyEscape)
             => E'.sel.active = 0
       /\ ((KeyCut \/ KeyBackspace \/ KeyDelete) /\ E.sel.active = 1)
             => E'.sel.active = 0
       /\ ((KeyShiftArrow \/ KeyShiftJump) /\ E.show_welcome = 0) =>
             /\ E'.sel.active = 1
             /\ E'.sel.end_row = E'.cy /\ E'.sel.end_col = E'.cx
             /\ IF E.sel.active = 1
                THEN /\ E'.sel.start_row = E.sel.start_row
                     /\ E'.sel.start_col = E.sel.start_col
                ELSE /\ E'.sel.start_row = E.cy
                     /\ E'.sel.start_col = E.cx]_vars

\* C27 witness: a selection begun at row 0, column 1 has been extended over
\* the line feed to row 1 by Shift-modified moves; the anchor is still where
\* it began and the moving end is at the cursor.
C27_Witness ==
    /\ E.sel.active = 1
    /\ E.sel.start_row = 0 /\ E.sel.start_col = 1
    /\ E.sel.end_row = 1
    /\ E.sel.end_row = E.cy /\ E.sel.end_col = E.cx
    /\ E.rowoff = 1

(* ------------------------------------------------------------------ *)
(* Claims about the cursor                                             *)
(* ------------------------------------------------------------------ *)

\* C28 (as claimed): after any sequence of key events the cursor names an
\* existing position: 0 <= cy < row_count() and 0 <= cx <= line_length(cy),
\* so that rowcol_to_position(cy, cx) does not clamp.
C28_CursorValid ==
    /\ 0 <= E.cy /\ E.cy < count_rows(g)
    /\ 0 <= E.cx /\ E.cx <= get_line_length(g, E.cy)
    /\ pos_to_rowcol(g, rowcol_to_pos(g, E.cy, E.cx)) = [row |-> E.cy, col |-> E.cx]

(* ------------------------------------------------------------------ *)
(* Claims about undo followed by redo                                  *)
(* ------------------------------------------------------------------ *)

\* s1 has the content and both history stacks of st.
SameTextAndStacks(st, s1) ==
    /\ Content(s1.g) = Content(st.g)
    /\ s1.E.history.undoStack = st.E.history.undoStack
    /\ s1.E.history.redoStack = st.E.history.redoStack

KeySave ==
    \E io \in SaveResults :
        LET r == editorSaveKey(Now, filename, io)
            s1 == editorRefreshScreen(editorSaveKey(Now, filename, io).st)
            drawn == editorRefreshScreen_draw([g |-> g', E |-> E'], filename, in_string)
        IN  /\ g' = s1.g
            /\ E' = s1.E
            /\ saved' = IF r.ret = 1 THEN r.bytes ELSE saved
            /\ last' = IF E.show_welcome = 1 THEN [op |-> "key", arg |-> 0, ret |-> 0]
                       ELSE [op |-> "save", arg |-> CTRL_S, ret |-> r.ret]
            /\ in_string' = drawn.in_string
            /\ abuf' = drawn.abuf
            /\ UNCHANGED <<ref, refpos, out, torn, loaded, edits, filename>>

\* Every key that changes the content (typing, Enter, Backspace, Delete,
\* paste, cut, undo, redo), Ctrl-A to select and Ctrl-S.
NextSave ==
    \/ KeyChar \/ KeyEnter \/ KeyBackspace \/ KeyDelete
    \/ KeySelectAll \/ KeyCut \/ KeyPaste
    \/ KeyUndo \/ KeyRedo
    \/ KeySave

\* The files SpecSave opens, and the start without a file (no file name,
\* welcome screen).
SaveFiles == SeqsUpTo({97}, MaxSaveFile)

InitSave ==
    /\ \E s0 \in {main_with_file(f) : f \in SaveFiles} \cup {main_without_file} :
          /\ g = s0.g
          /\ E = s0.E
          /\ loaded = Content(s0.g)
          /\ saved = Content(s0.g)
          /\ filename = (IF s0.E.show_welcome = 1 THEN NULL ELSE TextName)
          /\ in_string = editorRefreshScreen_draw(s0, filename, 0).in_string
          /\ abuf = editorRefreshScreen_draw(s0, filename, 0).abuf
    /\ ref = <<>>
    /\ refpos = 0
    /\ out = [buf |-> <<>>, ret |-> 0]
    /\ last = [op |-> "init", arg |-> 0, ret |-> 0]
    /\ torn = FALSE
    /\ edits = 0

SpecSave == InitSave /\ [][NextSave]_vars

\* A clear dirty flag means the content is the one loaded or last saved.
DirtyImpliesSaved == E.dirty = 0 => Content(g) = saved

\* A step that changes the content leaves the dirty flag set.
ContentChangeSetsDirty == Content(g') # Content(g) => E'.dirty = 1

\* A save that failed leaves the dirty flag as it was.
FailedSaveKeepsDirty ==
    (last'.op = "save" /\ last'.ret = 0) => (E'.dirty = E.dirty /\ saved' = saved)

\* C31: in every reachable state dirty == 0 implies that the content of the
\* store is byte for byte the content at the most recent load or successful
\* save; every key that changes the content sets dirty; and a failed save,
\* the one whose snapshot buffer is smaller than the content included, does
\* not clear it.
C31_DirtyFlagSound ==
    []DirtyImpliesSaved /\ [][ContentChangeSetsDirty /\ FailedSaveKeepsDirty]_vars

\* An edited content was saved, edited again beyond the snapshot buffer,
\* and the save that followed failed and left dirty set.
C31_Witness ==
    /\ last.op = "save"
    /\ last.ret = 0
    /\ gap_length(g) > SaveTmpSize
    /\ E.dirty = 1
    /\ saved # loaded
    /\ Len(saved) > 0

====
